---- MODULE Spec2Model ----
(***************************************************************************)
(* Trademark conflict risk screener (analise_marca.py).                    *)
(*                                                                         *)
(* Strings are modelled as sequences of one-character strings, so that     *)
(* normalization, the phonetic encoder, the block-matching similarity and   *)
(* the class-code extractor are computed character by character as the     *)
(* Python code computes them.                                              *)
(***************************************************************************)
EXTENDS Integers, Sequences, FiniteSets, TLC

VARIABLES
    pc,              \* position of the operation under analysis
    value,           \* soundex(value): the argument
    code,            \* soundex(value): the returned 4-character code
    candidate_name,  \* calculate_match: candidate_name
    candidate_class, \* calculate_match: candidate_class
    record,          \* calculate_match: record (a TrademarkRecord)
    cand_ncl,        \* calculate_match: local cand_ncl
    rec_ncl,         \* calculate_match: local rec_ncl
    same_class,      \* calculate_match: local same_class
    sim_a,           \* similarity_ratio: argument a
    sim_b,           \* similarity_ratio: argument b
    ratio_ab,        \* similarity_ratio(a, b)
    ratio_ba,        \* similarity_ratio(b, a)
    match,           \* calculate_match: the returned MatchResult
    signals,         \* the four signals the score is computed from
    score,           \* the score (lines 243-265); the argument of classify_risk
    risk_level,      \* classify_risk: the returned tier; main: risk_level
    matches,         \* main: the list of MatchResult
    top_matches,     \* generate_report: top_matches
    grounds,         \* generate_report: the numbered grounds (idx, match)
    report_risk,     \* generate_report: risk_level
    highest,         \* main: highest
    top,             \* generate_legal_opinion: top
    report,          \* main: report, as the list lines of generate_report
    opinion,         \* main: opinion, as the paragraphs of generate_legal_opinion
    reason,          \* format_reason: the returned rationale
    inpi,            \* fetch_inpi_by_class: whether it raises, and the rows it returns
    dataset,         \* the CSV file at DATASET_PATH: existence, header row, data rows
    csv_read,        \* whether read_records has opened the CSV file
    inpi_records,    \* load_records: inpi_records
    records,         \* main: records
    source,          \* main: source
    error,           \* the exception that ended the run ("" while none)
    ACTIVE_DIR,      \* server.py: ACTIVE_DIR, as the components of the resolved path
    written,         \* server.py: the files written by escrever_arquivo
    call,            \* server.py: the tool called and its argument
    reply,           \* server.py: the str the tool returned, or the error it raised
    opened           \* server.py: the path _safe_file returned to the tool

vars == <<pc, value, code, candidate_name, candidate_class, record,
          cand_ncl, rec_ncl, same_class, sim_a, sim_b, ratio_ab, ratio_ba,
          match, signals, score, risk_level,
          matches, top_matches, grounds, report_risk, highest, top,
          report, opinion, reason, inpi, dataset, csv_read, inpi_records, records, source, error,
          ACTIVE_DIR, written, call, reply, opened>>

soundexVars == <<value, code>>
matchInputVars == <<candidate_name, candidate_class, record>>
nclVars == <<cand_ncl, rec_ncl, same_class>>
simVars == <<sim_a, sim_b, ratio_ab, ratio_ba>>
scoreVars == <<match, signals, score, risk_level, reason>>
reportVars == <<matches, top_matches, grounds, report_risk, highest, top,
                report, opinion>>
loadVars == <<inpi, dataset, csv_read, inpi_records, records, source, error>>
serverVars == <<ACTIVE_DIR, written, call, reply, opened>>

(***************************************************************************)
(* Bounds of the model.                                                    *)
(***************************************************************************)
MaxSoundexLen == 5
MaxNclLen == 4
MaxSimLen == 3
MaxNameLen == 4
MaxRatioLen == 20
MaxScoreArg == 100
MaxMatches == 6
MaxCsvRows == 2
MaxInpiRows == 3
MaxMainCsvRows == 1
MaxWritten == 1

(***************************************************************************)
(* Characters and strings.                                                 *)
(***************************************************************************)
LowerLetters == <<"a","b","c","d","e","f","g","h","i","j","k","l","m",
                  "n","o","p","q","r","s","t","u","v","w","x","y","z">>
UpperLetters == <<"A","B","C","D","E","F","G","H","I","J","K","L","M",
                  "N","O","P","Q","R","S","T","U","V","W","X","Y","Z">>
Digits == {"0","1","2","3","4","5","6","7","8","9"}

IsUpper(ch) == \E i \in 1..26 : UpperLetters[i] = ch
IsLower(ch) == \E i \in 1..26 : LowerLetters[i] = ch

\* str.lower() on one character
Lower(ch) == IF IsUpper(ch)
             THEN LowerLetters[CHOOSE i \in 1..26 : UpperLetters[i] = ch]
             ELSE ch

\* str.upper() on one character
Upper(ch) == IF IsLower(ch)
             THEN UpperLetters[CHOOSE i \in 1..26 : LowerLetters[i] = ch]
             ELSE ch

\* str.isalpha() on one character
IsAlpha(ch) == IsLower(ch) \/ IsUpper(ch)

\* str.isdigit() on one character
IsDigitChar(ch) == ch \in Digits

\* the characters str.split() and str.strip() treat as whitespace
IsSpace(ch) == ch = " "

\* all sequences over S of length 0..n
BoundedSeq(S, n) == UNION {[1..k -> S] : k \in 0..n}

\* str.lower()
LowerStr(s) == [i \in 1..Len(s) |-> Lower(s[i])]

\* str.split(): the maximal runs of non-whitespace characters, in order
RECURSIVE SplitWords(_, _, _)
SplitWords(s, cur, acc) ==
    IF s = <<>>
    THEN IF cur = <<>> THEN acc ELSE Append(acc, cur)
    ELSE IF IsSpace(Head(s))
         THEN SplitWords(Tail(s), <<>>, IF cur = <<>> THEN acc ELSE Append(acc, cur))
         ELSE SplitWords(Tail(s), Append(cur, Head(s)), acc)

Split(s) == SplitWords(s, <<>>, <<>>)

\* sep.join(words)
RECURSIVE Join(_, _)
Join(words, sep) ==
    IF words = <<>> THEN <<>>
    ELSE IF Len(words) = 1 THEN words[1]
    ELSE words[1] \o sep \o Join(Tail(words), sep)

\* normalize_text: " ".join((value or "").strip().lower().split())
normalize_text(v) == Join(Split(LowerStr(v)), <<" ">>)

(***************************************************************************)
(* Phonetic encoder.                                                       *)
(***************************************************************************)
\* mappings.get(char, "") of lines 66-73
mappings_get(ch) ==
    IF ch \in {"b","f","p","v"} THEN "1"
    ELSE IF ch \in {"c","g","j","k","q","s","x","z"} THEN "2"
    ELSE IF ch \in {"d","t"} THEN "3"
    ELSE IF ch = "l" THEN "4"
    ELSE IF ch \in {"m","n"} THEN "5"
    ELSE IF ch = "r" THEN "6"
    ELSE ""

\* a loop that keeps the previous class across a no-class character
next_previous_collapsing(code_, previous_code) ==
    IF code_ = "" THEN previous_code ELSE code_

\* the value of previous_code after one loop iteration (line 83)
next_previous(code_, previous_code) == code_

\* the loop of lines 79-83 over value[1:], returning `encoded`
RECURSIVE soundex_loop(_, _, _)
soundex_loop(rest, previous_code, encoded) ==
    IF rest = <<>> THEN encoded
    ELSE LET code_ == mappings_get(Head(rest))
         IN soundex_loop(Tail(rest),
                         next_previous(code_, previous_code),
                         IF code_ # "" /\ code_ # previous_code
                         THEN Append(encoded, code_)
                         ELSE encoded)

\* line 62: the normalized value with every non-letter removed
soundex_filtered(v) == SelectSeq(normalize_text(v), IsAlpha)

\* a loop started with no previous class
soundex_initial_ignored(v) ==
    soundex_loop(Tail(soundex_filtered(v)), "", <<>>)

\* the list `encoded` when the loop ends (before padding and truncation);
\* evaluated only for a non-empty filtered string (line 63 returns before)
soundex_encoded(v) ==
    LET f == soundex_filtered(v)
    IN soundex_loop(Tail(f), mappings_get(f[1]), <<>>)

soundex(v) ==
    LET f == soundex_filtered(v)
    IN IF f = <<>> THEN <<"0","0","0","0">>
       ELSE SubSeq(<<Upper(f[1])>> \o soundex_encoded(v) \o <<"0","0","0">>, 1, 4)

(***************************************************************************)
(* Similarity: difflib.SequenceMatcher(None, a, b).ratio() on the          *)
(* normalized strings.  Positions are 0-based and ranges half-open, as in  *)
(* difflib; element i of a Python string x is x[i + 1] here.  No junk      *)
(* predicate is given and the strings are far shorter than the 200         *)
(* characters at which difflib starts to discard popular elements.         *)
(***************************************************************************)
\* the length of the common run of x[i:xhi] and y[j:yhi]
RECURSIVE RunLen(_, _, _, _, _, _)
RunLen(x, y, i, j, xhi, yhi) ==
    IF i < xhi /\ j < yhi /\ x[i + 1] = y[j + 1]
    THEN 1 + RunLen(x, y, i + 1, j + 1, xhi, yhi)
    ELSE 0

Max(S) == CHOOSE m \in S : \A n \in S : n <= m
Min(S) == CHOOSE m \in S : \A n \in S : m <= n

\* SequenceMatcher.find_longest_match(alo, ahi, blo, bhi): the longest block
\* x[i:i+k] == y[j:j+k] inside the window; of the longest blocks the one
\* starting earliest in x, and of those the one starting earliest in y;
\* (alo, blo, 0) when the window has no common element
find_longest_match(x, y, alo, ahi, blo, bhi) ==
    LET P == (alo..(ahi - 1)) \X (blo..(bhi - 1))
        size == IF P = {} THEN 0
                ELSE Max({RunLen(x, y, q[1], q[2], ahi, bhi) : q \in P})
    IN IF size = 0 THEN [i |-> alo, j |-> blo, size |-> 0]
       ELSE LET best == {q \in P : RunLen(x, y, q[1], q[2], ahi, bhi) = size}
                besti == Min({q[1] : q \in best})
                bestj == Min({q[2] : q \in {r \in best : r[1] = besti}})
            IN [i |-> besti, j |-> bestj, size |-> size]

\* SequenceMatcher.get_matching_blocks(), summed: the size of the longest
\* block of the window plus the totals of the windows left and right of it
RECURSIVE matching_total(_, _, _, _, _, _)
matching_total(x, y, alo, ahi, blo, bhi) ==
    LET m == find_longest_match(x, y, alo, ahi, blo, bhi)
    IN IF m.size = 0 THEN 0
       ELSE m.size
            + (IF alo < m.i /\ blo < m.j
               THEN matching_total(x, y, alo, m.i, blo, m.j) ELSE 0)
            + (IF m.i + m.size < ahi /\ m.j + m.size < bhi
               THEN matching_total(x, y, m.i + m.size, ahi, m.j + m.size, bhi)
               ELSE 0)

\* a ratio that counts each matched character once
calculate_ratio_single(matches_, length) == [num |-> matches_, den |-> length]

\* difflib._calculate_ratio: 2.0 * matches / length, and 1.0 when length is
\* 0; kept as the fraction num/den, den = 0 standing for 1.0
calculate_ratio(matches_, length) == [num |-> 2 * matches_, den |-> length]

\* r >= p/q and r < p/q for a ratio r and 0 < p <= q.  The thresholds of the
\* code are decimal literals compared with a correctly rounded quotient of
\* two small integers, so the comparison of the exact fractions decides it.
RatioGE(r, p, q) == IF r.den = 0 THEN TRUE ELSE r.num * q >= p * r.den
RatioIsOne(r) == r.den = 0 \/ r.num = r.den
RatioIsZero(r) == r.den # 0 /\ r.num = 0

\* similarity_ratio(a, b), lines 88-89
similarity_ratio(x_, y_) ==
    LET x == normalize_text(x_)
        y == normalize_text(y_)
    IN calculate_ratio(matching_total(x, y, 0, Len(x), 0, Len(y)), Len(x) + Len(y))

(***************************************************************************)
(* Classification-code extractor.                                          *)
(***************************************************************************)
\* str.replace(":", " ")
ReplaceColon(s) == [i \in 1..Len(s) |-> IF s[i] = ":" THEN " " ELSE s[i]]

\* p.isdigit() for a token
IsDigitToken(p) == p # <<>> /\ \A i \in 1..Len(p) : IsDigitChar(p[i])

\* an extractor that returns the first digit-only token
extract_ncl_first(v_) ==
    LET v == normalize_text(v_)
        parts == SelectSeq(Split(ReplaceColon(v)), IsDigitToken)
    IN IF parts # <<>> THEN parts[1] ELSE v

extract_ncl(v_) ==
    LET v == normalize_text(v_)
        parts == SelectSeq(Split(ReplaceColon(v)), IsDigitToken)
    IN IF parts # <<>> THEN parts[Len(parts)] ELSE v

(***************************************************************************)
(* Scoring and classification.                                             *)
(***************************************************************************)
ACTIVE_STATUSES ==
    {<<"a", "c", "t", "i", "v", "e">>,
     <<"r", "e", "g", "i", "s", "t", "e", "r", "e", "d">>,
     <<"g", "r", "a", "n", "t", "e", "d">>,
     <<"v", "i", "g", "e", "n", "t", "e">>,
     <<"d", "e", "f", "e", "r", "i", "d", "a">>,
     <<"d", "e", "f", "e", "r", "i", "d", "o">>,
     <<"e", "m", " ", "v", "i", "g", "o", "r">>,
     <<"r", "e", "g", "i", "s", "t", "r", "o", " ", "d", "e", " ", "m", "a", "r", "c", "a", " ", "e", "m", " ", "v", "i", "g", "o", "r">>}

\* `sub in s` for Python strings
Contains(s, sub) ==
    \E i \in 0..(Len(s) - Len(sub)) : SubSeq(s, i + 1, i + Len(sub)) = sub

\* variant of active_status_of: the status is a listed phrase
active_status_of_whole(status) ==
    LET status_norm == normalize_text(status)
    IN status_norm \in ACTIVE_STATUSES

\* lines 240-241: any(s in status_norm for s in ACTIVE_STATUSES)
active_status_of(status) ==
    LET status_norm == normalize_text(status)
    IN \E phrase \in ACTIVE_STATUSES : Contains(status_norm, phrase)

\* a tier chain written with `if` in place of `elif`
similarity_bonus_if_chain(text_similarity) ==
    (IF RatioGE(text_similarity, 90, 100) THEN 55 ELSE 0)
    + (IF RatioGE(text_similarity, 80, 100) THEN 40 ELSE 0)
    + (IF RatioGE(text_similarity, 70, 100) THEN 25 ELSE 0)
    + (IF RatioGE(text_similarity, 60, 100) THEN 12 ELSE 0)

\* a tier chain with the values of the 0.80 and 0.70 tiers exchanged
similarity_bonus_swapped(text_similarity) ==
    IF RatioGE(text_similarity, 90, 100) THEN 55
    ELSE IF RatioGE(text_similarity, 80, 100) THEN 25
    ELSE IF RatioGE(text_similarity, 70, 100) THEN 40
    ELSE IF RatioGE(text_similarity, 60, 100) THEN 12
    ELSE 0

\* lines 244-251: the if/elif chain on text_similarity
similarity_bonus(text_similarity) ==
    IF RatioGE(text_similarity, 90, 100) THEN 55
    ELSE IF RatioGE(text_similarity, 80, 100) THEN 40
    ELSE IF RatioGE(text_similarity, 70, 100) THEN 25
    ELSE IF RatioGE(text_similarity, 60, 100) THEN 12
    ELSE 0

\* a score returned without the cap
score_uncapped(text_similarity, phonetic_match, same_class_, active_status) ==
    similarity_bonus(text_similarity)
    + (IF phonetic_match THEN 25 ELSE 0)
    + (IF same_class_ THEN 25 ELSE 0)
    + (IF active_status THEN 15 ELSE 0)

\* lines 243-265: the additive score, capped by min(score, 100)
score_of(text_similarity, phonetic_match, same_class_, active_status) ==
    LET sum == similarity_bonus(text_similarity)
               + (IF phonetic_match THEN 25 ELSE 0)
               + (IF same_class_ THEN 25 ELSE 0)
               + (IF active_status THEN 15 ELSE 0)
    IN IF sum < 100 THEN sum ELSE 100

\* calculate_match, lines 232-266
calculate_match(candidate_name_, candidate_class_, record_) ==
    LET text_similarity == similarity_ratio(candidate_name_, record_.name)
        phonetic_match == soundex(candidate_name_) = soundex(record_.name)
        same_class_ == extract_ncl(candidate_class_) = extract_ncl(record_.nice_class)
        active_status == active_status_of(record_.status)
    IN [record |-> record_,
        text_similarity |-> text_similarity,
        phonetic_match |-> phonetic_match,
        same_class |-> same_class_,
        score |-> score_of(text_similarity, phonetic_match, same_class_, active_status)]

\* a classifier with strict comparisons
classify_risk_strict(score_) ==
    IF score_ > 75 THEN "HIGH RISK"
    ELSE IF score_ > 45 THEN "MEDIUM RISK"
    ELSE "LOW RISK"

\* classify_risk, lines 269-274
classify_risk(score_) ==
    IF score_ >= 75 THEN "HIGH RISK"
    ELSE IF score_ >= 45 THEN "MEDIUM RISK"
    ELSE "LOW RISK"

(***************************************************************************)
(* Ranking for the report and the opinion.                                 *)
(***************************************************************************)
\* x stays ahead of a later element m: in the descending stable order when
\* its score is not below; "unstable" and "ascending" are the orders of a
\* sort that puts m before its equals, and of a sort without reverse=True
GoesBefore(x, m, order) ==
    IF order = "descending" THEN x.score >= m.score
    ELSE IF order = "unstable" THEN x.score > m.score
    ELSE x.score <= m.score

\* the number of leading elements of s that go before m
RECURSIVE CountBefore(_, _, _)
CountBefore(s, m, order) ==
    IF s # <<>> /\ GoesBefore(Head(s), m, order)
    THEN 1 + CountBefore(Tail(s), m, order)
    ELSE 0

\* the list built by placing each element of ms, in order, behind the
\* leading elements that go before it
RECURSIVE InsertAll(_, _, _)
InsertAll(ms, acc, order) ==
    IF ms = <<>> THEN acc
    ELSE LET k == CountBefore(acc, Head(ms), order)
         IN InsertAll(Tail(ms),
                      SubSeq(acc, 1, k) \o <<Head(ms)>> \o SubSeq(acc, k + 1, Len(acc)),
                      order)

\* a descending sort that places an element before the equal ones
sorted_by_score_unstable(ms) == InsertAll(ms, <<>>, "unstable")

\* a sort without reverse=True
sorted_by_score_ascending(ms) == InsertAll(ms, <<>>, "ascending")

\* sorted(matches, key=lambda item: item.score, reverse=True), lines 325 and
\* 399: descending by score, elements of equal score in their input order
sorted_by_score(ms) == InsertAll(ms, <<>>, "descending")

\* s[:n]
Take(s, n) == SubSeq(s, 1, IF Len(s) < n THEN Len(s) ELSE n)

\* generate_report, lines 325-327 and 352-370: the top matches, the risk
\* tier of the report and its numbered grounds
generate_report(ms) ==
    LET top_matches_ == Take(sorted_by_score(ms), 5)
        highest_score == IF top_matches_ # <<>> THEN top_matches_[1].score ELSE 0
    IN [top_matches |-> top_matches_,
        risk_level |-> classify_risk(highest_score),
        grounds |-> [i \in 1..Len(top_matches_) |-> [idx |-> i, match |-> top_matches_[i]]]]

\* max((m.score for m in matches), default=0), line 483
max_score(ms) ==
    IF ms = <<>> THEN 0 ELSE Max({ms[i].score : i \in 1..Len(ms)})

\* generate_legal_opinion, line 399: the matches cited
opinion_top(ms) == Take(sorted_by_score(ms), 3)

(***************************************************************************)
(* soundex(value) applied to every bounded input.                          *)
(***************************************************************************)
SoundexAlphabet == {"p", "F", "s", "a", " "}

NamePfizer == <<"P", "f", "i", "z", "e", "r">>
NameLil == <<"l", "i", "l">>
NameSolano == <<" ", " ", "S", "O", "L", "A", "N", "O", " ", " ">>

SoundexSamples == {NamePfizer, NameLil, NameSolano}

NoRecord == [name |-> <<>>, nice_class |-> <<>>, status |-> <<>>,
             numero |-> <<>>, titular |-> <<>>]

IdleMatchInput ==
    /\ candidate_name = <<>>
    /\ candidate_class = <<>>
    /\ record = NoRecord

IdleNcl ==
    /\ cand_ncl = <<>>
    /\ rec_ncl = <<>>
    /\ same_class = FALSE

IdleSoundex ==
    /\ value = <<>>
    /\ code = <<>>

NoRatio == [num |-> 0, den |-> 1]

IdleSim ==
    /\ sim_a = <<>>
    /\ sim_b = <<>>
    /\ ratio_ab = NoRatio
    /\ ratio_ba = NoRatio

NoMatch == [record |-> NoRecord, text_similarity |-> NoRatio,
            phonetic_match |-> FALSE, same_class |-> FALSE, score |-> 0]

NoSignals == [text_similarity |-> NoRatio, phonetic_match |-> FALSE,
              same_class |-> FALSE, active_status |-> FALSE]

IdleScore ==
    /\ match = NoMatch
    /\ signals = NoSignals
    /\ score = 0
    /\ risk_level = ""
    /\ reason = ""

NoOpinion == [sintese |-> <<>>, orientacao |-> ""]

IdleReport ==
    /\ matches = <<>>
    /\ top_matches = <<>>
    /\ grounds = <<>>
    /\ report_risk = ""
    /\ highest = 0
    /\ top = <<>>
    /\ report = <<>>
    /\ opinion = NoOpinion

NoFetch == [raises |-> FALSE, rows |-> <<>>]
NoDataset == [exists |-> FALSE, fieldnames |-> <<>>, rows |-> <<>>]

IdleLoad ==
    /\ inpi = NoFetch
    /\ dataset = NoDataset
    /\ csv_read = FALSE
    /\ inpi_records = <<>>
    /\ records = <<>>
    /\ source = ""
    /\ error = ""

\* server.py, line 18: ACTIVE_DIR = Path("C:/codex_data").resolve()
InitialActiveDir == <<"C:", "codex_data">>
NoCall == [tool |-> "", arg |-> <<>>]

IdleServer ==
    /\ ACTIVE_DIR = InitialActiveDir
    /\ written = {}
    /\ call = NoCall
    /\ reply = ""
    /\ opened = <<>>

(***************************************************************************)
(* The text of the report (format_reason, generate_recommendations,        *)
(* generate_report).                                                       *)
(***************************************************************************)
\* a string of the model written as one Python str
RECURSIVE Str(_)
Str(chars) == IF chars = <<>> THEN "" ELSE chars[1] \o Str(Tail(chars))

\* sep.join(parts) on Python strs
RECURSIVE JoinStr(_, _)
JoinStr(parts, sep) ==
    IF parts = <<>> THEN ""
    ELSE IF Len(parts) = 1 THEN parts[1]
    ELSE parts[1] \o sep \o JoinStr(Tail(parts), sep)

\* variant of textual_reasons: the moderate clause from the 0.60 of the score
textual_reasons_from_bonus(text_similarity) ==
    IF RatioGE(text_similarity, 80, 100) THEN <<"high textual proximity">>
    ELSE IF RatioGE(text_similarity, 60, 100) THEN <<"moderate textual proximity">>
    ELSE <<>>

\* format_reason, lines 279-282: the textual clause
textual_reasons(text_similarity) ==
    IF RatioGE(text_similarity, 80, 100) THEN <<"high textual proximity">>
    ELSE IF RatioGE(text_similarity, 65, 100) THEN <<"moderate textual proximity">>
    ELSE <<>>

\* format_reason, lines 278-292: the list reasons
format_reasons(m) ==
    textual_reasons(m.text_similarity)
    \o (IF m.phonetic_match THEN <<"phonetic overlap under Soundex">> ELSE <<>>)
    \o (IF m.same_class THEN <<"identical Nice class">> ELSE <<>>)
    \o (IF active_status_of(m.record.status)
        THEN <<"prior mark appears active/registered">> ELSE <<>>)

\* format_reason, line 294
format_reason(m) ==
    IF format_reasons(m) # <<>> THEN JoinStr(format_reasons(m), "; ")
    ELSE "limited overlap indicators"

\* generate_recommendations, lines 302-315: the lead inserted at position 0
\* and the four base recommendations (each text cut at its first words)
generate_recommendations(risk_level_) ==
    <<IF risk_level_ = "HIGH RISK"
         THEN "Consider immediate naming alternatives before protocol"
      ELSE IF risk_level_ = "MEDIUM RISK"
         THEN "Proceed with caution"
      ELSE "Low conflict indicators",
      "Run an expanded INPI search",
      "Assess conceptual proximity",
      "Confirm status and scope of cited records",
      "If relevant conflicts appear, consider mitigation">>

\* one line of the report: the fixed text or the template of the line (tag),
\* the number of the ground (idx), the str interpolated (text), the match
\* whose fields are interpolated (match)
Line(tag, idx, text, m) == [tag |-> tag, idx |-> idx, text |-> text, match |-> m]
FixedLine(tag) == Line(tag, 0, "", NoMatch)

\* generate_report, lines 329-349: the lines down to the result
report_head(risk_level_) ==
    <<FixedLine("BUSCA DE ANTERIORIDADE - TRIAGEM PRELIMINAR (USO INTERNO)"),
      FixedLine("Date: {date_str}"),
      FixedLine(""),
      FixedLine("I. Candidate Mark Information"),
      FixedLine("- Proposed trademark: {trademark_name}"),
      FixedLine("- Nice class: {nice_class}"),
      FixedLine("- Business segment: {business_segment}"),
      FixedLine(""),
      FixedLine("II. Data Source"),
      FixedLine("- Records source: {source_label}"),
      FixedLine(""),
      FixedLine("III. Methodological Review"),
      FixedLine("This preliminary screening reviewed prior records with emphasis on:"),
      FixedLine("(a) textual similarity (SequenceMatcher),"),
      FixedLine("(b) phonetic proximity (Soundex), and"),
      FixedLine("(c) class-based conflict priority (same Nice class)."),
      FixedLine(""),
      FixedLine("IV. Risk Determination"),
      Line("Result: {risk_level}", 0, risk_level_, NoMatch)>>

\* generate_report, lines 362-370: the five lines of one ground
ground_lines(idx, m) ==
    <<Line("{idx}. Prior mark: {match.record.name}", idx, "", m),
      Line("   - Class/Status: {match.record.nice_class} / {match.record.status}{extra_txt}",
           idx, "", m),
      Line("   - Similarity index: {match.text_similarity * 100:.1f}%", idx, "", m),
      Line("   - Conflict rationale: {format_reason(match)}.", idx, format_reason(m), m),
      Line("   - Weighted conflict score: {match.score}/100", idx, "", m)>>

RECURSIVE all_ground_lines(_, _)
all_ground_lines(top_matches_, idx) ==
    IF idx > Len(top_matches_) THEN <<>>
    ELSE ground_lines(idx, top_matches_[idx]) \o all_ground_lines(top_matches_, idx + 1)

\* variant of report_grounds: the else branch of line 371 is left out
report_grounds_without_else(top_matches_) ==
    <<FixedLine("Grounds (top indications):")>> \o all_ground_lines(top_matches_, 1)

\* generate_report, lines 351-372
report_grounds(top_matches_) ==
    IF top_matches_ # <<>>
    THEN <<FixedLine("Grounds (top indications):")>> \o all_ground_lines(top_matches_, 1)
    ELSE <<FixedLine("Grounds: no prior records available for comparative assessment.")>>

\* generate_report, lines 374-376
report_recommendations(risk_level_) ==
    <<FixedLine(""), FixedLine("V. Recommendations (next steps)")>>
    \o [i \in 1..Len(generate_recommendations(risk_level_)) |->
           Line("- {rec}", 0, generate_recommendations(risk_level_)[i], NoMatch)]

\* generate_report, lines 378-386
report_note ==
    <<FixedLine(""),
      FixedLine("VI. Professional Note"),
      FixedLine("This report is a screening aid for internal legal triage and does not replace"),
      FixedLine("a full registrability opinion, including jurisdiction-specific case law review,"),
      FixedLine("market coexistence evidence, examiner practice, and goods/services specification analysis.")>>

\* generate_report, lines 325-388: the lines joined by the return
report_lines(ms) ==
    report_head(generate_report(ms).risk_level)
    \o report_grounds(generate_report(ms).top_matches)
    \o report_recommendations(generate_report(ms).risk_level)
    \o report_note

(***************************************************************************)
(* The text of the opinion (generate_legal_opinion).  Accented letters of  *)
(* the Portuguese text are written without their accents.                  *)
(***************************************************************************)
\* lines 402-406: the reference of one cited match
opinion_ref(m) ==
    Str(m.record.name)
    \o (IF m.record.numero # <<>> THEN " (proc. " \o Str(m.record.numero) \o ")" ELSE "")
    \o (IF m.record.titular # <<>> THEN ", titular " \o Str(m.record.titular) ELSE "")

\* lines 399-407: refs
opinion_refs(ms) == [i \in 1..Len(opinion_top(ms)) |-> opinion_ref(opinion_top(ms)[i])]

\* line 409
refs_txt(ms) ==
    IF opinion_refs(ms) # <<>> THEN JoinStr(opinion_refs(ms), "; ")
    ELSE "anterioridades relevantes"

\* variant of opinion_fundamento: the last branch cites refs_txt as well
opinion_fundamento_citing(risk, ms) ==
    IF risk = "HIGH RISK"
    THEN <<"identificou-se colidencia relevante com ", refs_txt(ms),
           ", incluindo sinais identicos ou praticamente identicos na mesma classe">>
    ELSE IF risk = "MEDIUM RISK"
    THEN <<"foram encontradas anterioridades potencialmente conflitantes (", refs_txt(ms),
           "), com semelhanca fonetica e/ou textual">>
    ELSE <<"nao foram identificadas anterioridades fortes (", refs_txt(ms), ")">>

\* lines 411-440: fundamento, as the pieces the f-strings concatenate (each
\* fixed piece cut at its first words)
opinion_fundamento(risk, ms) ==
    IF risk = "HIGH RISK"
    THEN <<"identificou-se colidencia relevante com ", refs_txt(ms),
           ", incluindo sinais identicos ou praticamente identicos na mesma classe">>
    ELSE IF risk = "MEDIUM RISK"
    THEN <<"foram encontradas anterioridades potencialmente conflitantes (", refs_txt(ms),
           "), com semelhanca fonetica e/ou textual">>
    ELSE <<"nao foram identificadas anterioridades fortes com potencial claro de confusao direta">>

\* lines 418-443: orientacao (cut at its first sentence)
opinion_orientacao(risk) ==
    IF risk = "HIGH RISK" THEN "Recomenda-se nao protocolar a marca nominativa isolada."
    ELSE IF risk = "MEDIUM RISK" THEN "O deposito pode ser considerado, porem com cautela."
    ELSE "Em principio, o deposito mostra-se viavel"

\* generate_legal_opinion, lines 399-461: the paragraphs of the returned text
generate_legal_opinion(risk, ms) ==
    [sintese |-> <<"Com base na busca de anterioridade realizada, conclui-se que ">>
                 \o opinion_fundamento(risk, ms),
     orientacao |-> opinion_orientacao(risk)]

InitSoundex ==
    /\ pc = "soundex_call"
    /\ value \in BoundedSeq(SoundexAlphabet, MaxSoundexLen) \cup SoundexSamples
    /\ code = <<>>
    /\ IdleMatchInput
    /\ IdleNcl
    /\ IdleSim
    /\ IdleScore
    /\ IdleReport
    /\ IdleLoad
    /\ IdleServer

SoundexCall ==
    /\ pc = "soundex_call"
    /\ code' = soundex(value)
    /\ pc' = "soundex_done"
    /\ UNCHANGED <<value, matchInputVars, nclVars, simVars, scoreVars, reportVars, loadVars, serverVars>>

NextSoundex == SoundexCall

SpecSoundex == InitSoundex /\ [][NextSoundex]_vars

\* the filtered string of the call under analysis
Filtered == soundex_filtered(value)

\* first letter, then the digits, right-padded with "0" and cut to 4 characters
SoundexPad(first, digits) == SubSeq(<<first>> \o digits \o <<"0","0","0">>, 1, 4)

\* one digit for every letter from position k on that has a class different
\* from the class of the letter immediately before it
RECURSIVE DigitsFrom(_, _)
DigitsFrom(f, k) ==
    IF k > Len(f) THEN <<>>
    ELSE (IF mappings_get(f[k]) # "" /\ mappings_get(f[k]) # mappings_get(f[k-1])
          THEN <<mappings_get(f[k])>> ELSE <<>>) \o DigitsFrom(f, k + 1)

\* the last letter of f has a class, and the nearest letter with a class
\* before it has the same class and is separated from it by one or more
\* no-class letters
GapRepeatAtEnd(f) ==
    /\ Len(f) >= 3
    /\ mappings_get(f[Len(f)]) # ""
    /\ \E i \in 1..(Len(f) - 2) :
          /\ mappings_get(f[i]) = mappings_get(f[Len(f)])
          /\ \A k \in (i + 1)..(Len(f) - 1) : mappings_get(f[k]) = ""

\* the same, where the earlier letter comes after the first letter and has
\* produced its own digit (its class differs from the letter before it)
GapRepeatAfterDigit(f) ==
    /\ Len(f) >= 4
    /\ mappings_get(f[Len(f)]) # ""
    /\ \E i \in 2..(Len(f) - 2) :
          /\ mappings_get(f[i]) = mappings_get(f[Len(f)])
          /\ mappings_get(f[i]) # mappings_get(f[i - 1])
          /\ \A k \in (i + 1)..(Len(f) - 1) : mappings_get(f[k]) = ""

\* C8 (as claimed): two letters of one class after the first letter that are
\* separated only by no-class letters produce the class digit once: the later
\* letter adds no digit to the code.
C8_GapRepeatCollapses ==
    (pc = "soundex_done" /\ GapRepeatAfterDigit(Filtered)) =>
        code = SoundexPad(Upper(Filtered[1]),
                          DigitsFrom(SubSeq(Filtered, 1, Len(Filtered) - 1), 2))

\* C8 (amended): a no-class letter resets the previous class, so a letter of
\* the same class after the gap produces its digit again (kept when it falls
\* within the three digits of the code); after the first letter the digit is
\* therefore emitted twice, and when the earlier letter is the first letter
\* itself the later letter still gets its digit.
C8_GapRepeatEmitsAgain ==
    (pc = "soundex_done" /\ GapRepeatAtEnd(Filtered)) =>
        /\ code = SoundexPad(Upper(Filtered[1]),
                             DigitsFrom(SubSeq(Filtered, 1, Len(Filtered) - 1), 2)
                                 \o <<mappings_get(Filtered[Len(Filtered)])>>)
        /\ (value = NameLil => code = <<"L", "4", "0", "0">>)

C8_Witness ==
    /\ pc = "soundex_done"
    /\ Filtered = <<"a", "s", "a", "s">>
    /\ code = <<"A", "2", "2", "0">>

\* C9: the first letter is kept upper-cased and is never a digit; its class
\* is the initial previous class, so a second letter of the same class adds
\* no digit; and after the first letter every run of adjacent letters of one
\* class adds exactly one digit (the code keeps the first three digits).
C9_AdjacentSameClassCollapses ==
    (pc = "soundex_done" /\ Filtered # <<>>) =>
        /\ code[1] = Upper(Filtered[1])
        /\ code[1] \notin Digits
        /\ Len(code) = 4
        /\ code = SoundexPad(Upper(Filtered[1]), DigitsFrom(Filtered, 2))
        /\ (Len(Filtered) >= 2 /\ mappings_get(Filtered[2]) = mappings_get(Filtered[1]))
              => code = SoundexPad(Upper(Filtered[1]), DigitsFrom(Filtered, 3))
        /\ (value = NamePfizer => code = <<"P", "2", "6", "0">>)

C9_Witness ==
    /\ pc = "soundex_done"
    /\ Filtered = <<"p", "f", "f", "s", "s">>
    /\ code = <<"P", "2", "0", "0">>

(***************************************************************************)
(* extract_ncl and the class comparison of calculate_match (lines 236-238) *)
(* applied to every bounded pair of class strings.                         *)
(***************************************************************************)
NclAlphabet == {"3", "0", ":", " ", "N"}

Class30 == <<"3", "0">>
Class10 == <<"1", "0">>
ClassNCL8_30 == <<"N", "C", "L", "(", "8", ")", " ", "3", "0">>
Class33_10 == <<"3", "3", " ", ":", " ", "1", "0">>

ClassSamples == {Class30, Class10, ClassNCL8_30, Class33_10}

InitNcl ==
    /\ pc = "ncl_call"
    /\ candidate_name = <<>>
    /\ candidate_class \in ClassSamples
    /\ \E c \in BoundedSeq(NclAlphabet, MaxNclLen) \cup ClassSamples :
          record = [NoRecord EXCEPT !.nice_class = c]
    /\ IdleNcl
    /\ IdleSoundex
    /\ IdleSim
    /\ IdleScore
    /\ IdleReport
    /\ IdleLoad
    /\ IdleServer

\* lines 236-238 of calculate_match
CompareClasses ==
    /\ pc = "ncl_call"
    /\ cand_ncl' = extract_ncl(candidate_class)
    /\ rec_ncl' = extract_ncl(record.nice_class)
    /\ same_class' = (extract_ncl(candidate_class) = extract_ncl(record.nice_class))
    /\ pc' = "ncl_done"
    /\ UNCHANGED <<soundexVars, matchInputVars, simVars, scoreVars, reportVars, loadVars, serverVars>>

NextNcl == CompareClasses

SpecNcl == InitNcl /\ [][NextNcl]_vars

\* the digit-only tokens of w, as (first, last) positions: maximal stretches
\* of digits delimited by whitespace or by the ends of w
DigitTokens(w) ==
    {t \in (1..Len(w)) \X (1..Len(w)) :
        /\ t[1] <= t[2]
        /\ \A k \in t[1]..t[2] : w[k] \in Digits
        /\ (t[1] = 1 \/ w[t[1] - 1] = " ")
        /\ (t[2] = Len(w) \/ w[t[2] + 1] = " ")}

\* the last digit-only token of the normalized string with ':' read as a
\* space, or the normalized string itself when there is none
LastDigitTokenOrSelf(raw) ==
    LET v == normalize_text(raw)
        w == [i \in 1..Len(v) |-> IF v[i] = ":" THEN " " ELSE v[i]]
        T == DigitTokens(w)
    IN IF T = {} THEN v
       ELSE LET t == CHOOSE x \in T : \A y \in T : y[1] <= x[1]
            IN SubSeq(w, t[1], t[2])

\* C10: extract_ncl returns the last digit-only token of the normalized
\* string (':' read as a space), or the whole normalized string, colons
\* included, when no token is digit-only; 'NCL(8) 30' and '30' both give
\* '30', '33 : 10' gives '10'; same_class is the string equality of the two
\* extracted codes.
C10_ExtractNcl ==
    pc = "ncl_done" =>
        /\ rec_ncl = LastDigitTokenOrSelf(record.nice_class)
        /\ cand_ncl = LastDigitTokenOrSelf(candidate_class)
        /\ (DigitTokens(ReplaceColon(normalize_text(record.nice_class))) = {}
              => rec_ncl = normalize_text(record.nice_class))
        /\ (record.nice_class \in {ClassNCL8_30, Class30} => rec_ncl = Class30)
        /\ (record.nice_class = Class33_10 => rec_ncl = Class10)
        /\ (same_class <=> cand_ncl = rec_ncl)

C10_Witness ==
    /\ pc = "ncl_done"
    /\ candidate_class = ClassNCL8_30
    /\ cand_ncl = Class30
    /\ record.nice_class = <<"3", ":", "0", "N">>
    /\ rec_ncl = <<"3">>
    /\ ~same_class

(***************************************************************************)
(* similarity_ratio applied to every bounded pair, in both orders.         *)
(***************************************************************************)
SimAlphabet == {"a", "B", "c"}

InitSim ==
    /\ pc = "sim_call"
    /\ sim_a \in BoundedSeq(SimAlphabet, MaxSimLen)
    /\ sim_b \in BoundedSeq(SimAlphabet, MaxSimLen)
    /\ ratio_ab = NoRatio
    /\ ratio_ba = NoRatio
    /\ IdleSoundex
    /\ IdleMatchInput
    /\ IdleNcl
    /\ IdleScore
    /\ IdleReport
    /\ IdleLoad
    /\ IdleServer

SimilarityForward ==
    /\ pc = "sim_call"
    /\ ratio_ab' = similarity_ratio(sim_a, sim_b)
    /\ pc' = "sim_forward"
    /\ UNCHANGED <<sim_a, sim_b, ratio_ba, soundexVars, matchInputVars, nclVars, scoreVars, reportVars, loadVars, serverVars>>

SimilarityReverse ==
    /\ pc = "sim_forward"
    /\ ratio_ba' = similarity_ratio(sim_b, sim_a)
    /\ pc' = "sim_done"
    /\ UNCHANGED <<sim_a, sim_b, ratio_ab, soundexVars, matchInputVars, nclVars, scoreVars, reportVars, loadVars, serverVars>>

NextSim == SimilarityForward \/ SimilarityReverse

SpecSim == InitSim /\ [][NextSim]_vars

LongestCommonBlock(x, y) ==
    Max({0} \cup {k \in 1..Len(x) :
            \E i \in 1..(Len(x) - k + 1), j \in 1..(Len(y) - k + 1) :
                SubSeq(x, i, i + k - 1) = SubSeq(y, j, j + k - 1)})

CommonChars(x, y) == {x[i] : i \in 1..Len(x)} \cap {y[j] : j \in 1..Len(y)}

\* r lies in [0, 1] and is at least 2*k/n
RatioWithin(r, k, n) ==
    r.den = 0 \/ (r.den = n /\ 2 * k <= r.num /\ r.num <= r.den)

NameAlphabet == {"a", "b", "B", " "}

Stripped(n) == n = <<>> \/ (~IsSpace(n[1]) /\ ~IsSpace(n[Len(n)]))

RecordNames == {n \in BoundedSeq(NameAlphabet, MaxNameLen) : n # <<>> /\ Stripped(n)}

CandidateNames == {<<"A", "b", " ", "b">>, <<"a", "b", "a", "b">>,
                   <<"a", "b", " ", "b", "a", "b">>}

StatusVigente == <<"v", "i", "g", "e", "n", "t", "e">>
StatusExpired == <<"E", "x", "p", "i", "r", "e", "d">>
StatusND == <<"N", "/", "D">>

StatusSamples == {StatusVigente, StatusExpired, StatusND}

InitMatch ==
    /\ pc = "match_call"
    /\ candidate_name \in CandidateNames
    /\ candidate_class \in {Class30, ClassNCL8_30}
    /\ \E n \in RecordNames, c \in {Class30, ClassNCL8_30, Class33_10}, st \in StatusSamples :
          record = [name |-> n, nice_class |-> c, status |-> st,
                    numero |-> <<>>, titular |-> <<>>]
    /\ IdleScore
    /\ IdleSoundex
    /\ IdleNcl
    /\ IdleSim
    /\ IdleReport
    /\ IdleLoad
    /\ IdleServer

CalculateMatch ==
    /\ pc = "match_call"
    /\ match' = calculate_match(candidate_name, candidate_class, record)
    /\ pc' = "match_done"
    /\ UNCHANGED <<signals, score, risk_level, reason, soundexVars, matchInputVars, nclVars, simVars, reportVars, loadVars, serverVars>>

\* format_reason(match), as generate_report calls it at line 368
FormatReason ==
    /\ pc = "match_done"
    /\ reason' = format_reason(match)
    /\ pc' = "reason_done"
    /\ UNCHANGED <<match, signals, score, risk_level, soundexVars, matchInputVars, nclVars,
                   simVars, reportVars, loadVars, serverVars>>

NextMatch == CalculateMatch \/ FormatReason

SpecMatch == InitMatch /\ [][NextMatch]_vars

\* the similarity tier bonus as the tier table states it
TierBonus(r) ==
    CHOOSE t \in {55, 40, 25, 12, 0} :
        /\ (t = 55 <=> RatioGE(r, 9, 10))
        /\ (t = 40 <=> (RatioGE(r, 8, 10) /\ ~RatioGE(r, 9, 10)))
        /\ (t = 25 <=> (RatioGE(r, 7, 10) /\ ~RatioGE(r, 8, 10)))
        /\ (t = 12 <=> (RatioGE(r, 6, 10) /\ ~RatioGE(r, 7, 10)))
        /\ (t = 0 <=> ~RatioGE(r, 6, 10))

Bonus(flag, n) == IF flag THEN n ELSE 0

\* the active-status signal of the record that was matched
MatchedActive == active_status_of(match.record.status)

\* C1: the score is min(T + 25*[phoneticMatch] + 25*[sameClass] +
\* 15*[activeStatus], 100) with T the bonus of the one applicable similarity
\* tier, and is an integer in 0..100.
C1_ScoreFormula ==
    pc = "match_done" =>
        LET sum == TierBonus(match.text_similarity)
                   + Bonus(match.phonetic_match, 25)
                   + Bonus(match.same_class, 25)
                   + Bonus(MatchedActive, 15)
        IN /\ match.score \in 0..100
           /\ sum <= 100 => match.score = sum
           /\ sum > 100 => match.score = 100

C1_Witness ==
    /\ pc = "match_done"
    /\ RatioIsOne(match.text_similarity)
    /\ match.phonetic_match /\ match.same_class /\ MatchedActive
    /\ match.score = 100

\* C2 (as claimed): a score of 100 is produced only when similarity >= 0.90
\* and phoneticMatch, sameClass and activeStatus all hold.
C2_MaxOnlyWhenAllFire ==
    (pc = "match_done" /\ match.score = 100) =>
        /\ RatioGE(match.text_similarity, 9, 10)
        /\ match.phonetic_match
        /\ match.same_class
        /\ MatchedActive

\* C2 (amended): the bonuses add up to 120, so the capped score is 100
\* exactly when similarity >= 0.90 with phoneticMatch and sameClass (active
\* or not), or 0.80 <= similarity < 0.90 with phoneticMatch, sameClass and
\* activeStatus; no other combination yields 100.
C2_MaxWhenSumReachesCap ==
    pc = "match_done" =>
        (match.score = 100 <=>
            \/ /\ RatioGE(match.text_similarity, 9, 10)
               /\ match.phonetic_match
               /\ match.same_class
            \/ /\ RatioGE(match.text_similarity, 8, 10)
               /\ match.phonetic_match
               /\ match.same_class
               /\ MatchedActive)

C2_Witness ==
    /\ pc = "match_done"
    /\ match.score = 100
    /\ ~RatioGE(match.text_similarity, 9, 10)
    /\ MatchedActive

(***************************************************************************)
(* The score (lines 243-265) applied to every vector of signals.           *)
(***************************************************************************)
\* the ratios of strings of total length up to MaxRatioLen: any number of
\* matches up to half the total length
Ratios == {calculate_ratio(q[1], q[2]) :
              q \in {q \in (0..MaxRatioLen) \X (0..MaxRatioLen) : 2 * q[1] <= q[2]}}

SignalVectors == [text_similarity : Ratios, phonetic_match : BOOLEAN,
                  same_class : BOOLEAN, active_status : BOOLEAN]

InitScore ==
    /\ pc = "score_call"
    /\ signals \in SignalVectors
    /\ match = NoMatch
    /\ score = 0
    /\ risk_level = ""
    /\ IdleSoundex
    /\ IdleMatchInput
    /\ IdleNcl
    /\ IdleSim
    /\ IdleReport
    /\ reason = ""
    /\ IdleLoad
    /\ IdleServer

ComputeScore ==
    /\ pc = "score_call"
    /\ score' = score_of(signals.text_similarity, signals.phonetic_match,
                         signals.same_class, signals.active_status)
    /\ pc' = "score_done"
    /\ UNCHANGED <<match, signals, risk_level, reason, soundexVars, matchInputVars, nclVars, simVars, reportVars, loadVars, serverVars>>

NextScore == ComputeScore

SpecScore == InitScore /\ [][NextScore]_vars

\* the similarity tier of a ratio, 0 (below 0.60) to 4 (0.90 and above)
TierOf(r) ==
    IF RatioGE(r, 9, 10) THEN 4
    ELSE IF RatioGE(r, 8, 10) THEN 3
    ELSE IF RatioGE(r, 7, 10) THEN 2
    ELSE IF RatioGE(r, 6, 10) THEN 1
    ELSE 0

\* w is v with exactly one component raised
RaisedInOne(v, w) ==
    \/ /\ TierOf(w.text_similarity) > TierOf(v.text_similarity)
       /\ w.phonetic_match = v.phonetic_match
       /\ w.same_class = v.same_class
       /\ w.active_status = v.active_status
    \/ /\ TierOf(w.text_similarity) = TierOf(v.text_similarity)
       /\ \/ /\ ~v.phonetic_match /\ w.phonetic_match
             /\ w.same_class = v.same_class
             /\ w.active_status = v.active_status
          \/ /\ ~v.same_class /\ w.same_class
             /\ w.phonetic_match = v.phonetic_match
             /\ w.active_status = v.active_status
          \/ /\ ~v.active_status /\ w.active_status
             /\ w.phonetic_match = v.phonetic_match
             /\ w.same_class = v.same_class

\* C3: raising one of similarity tier, phoneticMatch, sameClass or
\* activeStatus, the others fixed, never lowers the score.
C3_Monotone ==
    pc = "score_done" =>
        \A w \in SignalVectors :
            RaisedInOne(signals, w) =>
                score <= score_of(w.text_similarity, w.phonetic_match,
                                  w.same_class, w.active_status)

C3_Witness ==
    /\ pc = "score_done"
    /\ TierOf(signals.text_similarity) = 2
    /\ signals.phonetic_match /\ ~signals.same_class /\ signals.active_status
    /\ score = 65

(***************************************************************************)
(* classify_risk applied to every score.                                   *)
(***************************************************************************)
InitRisk ==
    /\ pc = "risk_call"
    /\ score \in 0..MaxScoreArg
    /\ match = NoMatch
    /\ signals = NoSignals
    /\ risk_level = ""
    /\ IdleSoundex
    /\ IdleMatchInput
    /\ IdleNcl
    /\ IdleSim
    /\ IdleReport
    /\ reason = ""
    /\ IdleLoad
    /\ IdleServer

ClassifyRisk ==
    /\ pc = "risk_call"
    /\ risk_level' = classify_risk(score)
    /\ pc' = "risk_done"
    /\ UNCHANGED <<match, signals, score, reason, soundexVars, matchInputVars, nclVars, simVars, reportVars, loadVars, serverVars>>

NextRisk == ClassifyRisk

SpecRisk == InitRisk /\ [][NextRisk]_vars

\* C4: every score gets exactly one tier: HIGH from 75 up, MEDIUM from 45
\* to 74, LOW below 45 (75 -> HIGH, 74 -> MEDIUM, 45 -> MEDIUM, 44 -> LOW,
\* 0 -> LOW).
C4_RiskTiers ==
    pc = "risk_done" =>
        /\ risk_level \in {"HIGH RISK", "MEDIUM RISK", "LOW RISK"}
        /\ (risk_level = "HIGH RISK" <=> score >= 75)
        /\ (risk_level = "MEDIUM RISK" <=> (45 <= score /\ score < 75))
        /\ (risk_level = "LOW RISK" <=> score < 45)
        /\ (score = 75 => risk_level = "HIGH RISK")
        /\ (score \in {74, 45} => risk_level = "MEDIUM RISK")
        /\ (score \in {44, 0} => risk_level = "LOW RISK")

C4_Witness ==
    /\ pc = "risk_done"
    /\ score = 75
    /\ risk_level = "HIGH RISK"

(***************************************************************************)
(* A screening run from the match list on (main, lines 481-485):           *)
(* generate_report, the tier of the highest score, generate_legal_opinion. *)
(* The match list is any list of up to MaxMatches results of               *)
(* calculate_match, the empty list included.                               *)
(***************************************************************************)
RunCandidate == <<"A", "b", " ", "b">>

SampleRecords ==
    {[name |-> <<"A", "b", " ", "b">>, nice_class |-> Class30, status |-> StatusVigente,
      numero |-> <<"1">>, titular |-> <<>>],
     [name |-> <<"a", "b", " ", "b">>, nice_class |-> ClassNCL8_30, status |-> StatusVigente,
      numero |-> <<"2">>, titular |-> <<"x">>],
     [name |-> <<"a", "b", "b">>, nice_class |-> Class33_10, status |-> StatusExpired,
      numero |-> <<"3">>, titular |-> <<>>],
     [name |-> <<"B">>, nice_class |-> Class10, status |-> StatusND,
      numero |-> <<>>, titular |-> <<>>]}

SampleMatches == {calculate_match(RunCandidate, Class30, r) : r \in SampleRecords}

Init ==
    /\ pc = "report_call"
    /\ matches \in BoundedSeq(SampleMatches, MaxMatches)
    /\ top_matches = <<>>
    /\ grounds = <<>>
    /\ report_risk = ""
    /\ highest = 0
    /\ top = <<>>
    /\ report = <<>>
    /\ opinion = NoOpinion
    /\ IdleScore
    /\ IdleSoundex
    /\ IdleMatchInput
    /\ IdleNcl
    /\ IdleSim
    /\ IdleLoad
    /\ IdleServer

\* line 481
GenerateReport ==
    /\ pc = "report_call"
    /\ LET r == generate_report(matches)
       IN /\ top_matches' = r.top_matches
          /\ report_risk' = r.risk_level
          /\ grounds' = r.grounds
    /\ report' = report_lines(matches)
    /\ pc' = "reported"
    /\ UNCHANGED <<matches, highest, top, opinion, scoreVars, soundexVars, matchInputVars, nclVars, simVars, loadVars, serverVars>>

\* lines 483-484
ClassifyHighest ==
    /\ pc = "reported"
    /\ highest' = max_score(matches)
    /\ risk_level' = classify_risk(max_score(matches))
    /\ pc' = "classified"
    /\ UNCHANGED <<matches, top_matches, grounds, report_risk, top, report, opinion,
                   match, signals, score, reason,
                   soundexVars, matchInputVars, nclVars, simVars, loadVars, serverVars>>

\* line 485
GenerateLegalOpinion ==
    /\ pc = "classified"
    /\ top' = opinion_top(matches)
    /\ opinion' = generate_legal_opinion(risk_level, matches)
    /\ pc' = "done"
    /\ UNCHANGED <<matches, top_matches, grounds, report_risk, highest, report, scoreVars,
                   soundexVars, matchInputVars, nclVars, simVars, loadVars, serverVars>>

Next == GenerateReport \/ ClassifyHighest \/ GenerateLegalOpinion

Spec == Init /\ [][Next]_vars

Scores(ms) == {ms[i].score : i \in 1..Len(ms)}

\* the tier of a score, from the boundaries 75 and 45
TierOfScore(n) == IF n >= 75 THEN "HIGH RISK" ELSE IF n >= 45 THEN "MEDIUM RISK" ELSE "LOW RISK"

\* C5: the tier printed by the report is the tier of the largest score of
\* the match list (of 0 when the list is empty), which is the tier main
\* passes to the opinion.
C5_ReportAndOpinionSameTier ==
    pc \in {"classified", "done"} =>
        /\ report_risk = risk_level
        /\ \A n \in Scores(matches) : n <= highest
        /\ highest \in Scores(matches) \cup {0}
        /\ (matches # <<>> => highest \in Scores(matches))
        /\ report_risk = TierOfScore(highest)

C5_Witness ==
    /\ pc = "done"
    /\ Len(matches) >= 2
    /\ matches[1].score < matches[Len(matches)].score
    /\ matches[Len(matches)].score = highest
    /\ report_risk = "MEDIUM RISK"
    /\ risk_level = "MEDIUM RISK"

\* the number of elements that a stable descending order puts before ms[i]
Rank(ms, i) ==
    Cardinality({j \in 1..Len(ms) :
        ms[j].score > ms[i].score \/ (ms[j].score = ms[i].score /\ j < i)})

\* the first k elements in stable descending order
StableTop(ms, k) ==
    [p \in 1..(IF Len(ms) < k THEN Len(ms) ELSE k) |->
        ms[CHOOSE i \in 1..Len(ms) : Rank(ms, i) = p - 1]]

NonIncreasing(s) == \A i \in 1..Len(s), j \in 1..Len(s) : i < j => s[i].score >= s[j].score

\* the selection cited: in stable descending order, its scores not
\* increasing, and no match left out scoring above a selected one
SelectedTop(sel, ms, k) ==
    /\ Len(sel) = (IF Len(ms) < k THEN Len(ms) ELSE k)
    /\ sel = StableTop(ms, k)
    /\ NonIncreasing(sel)
    /\ \A i \in 1..Len(ms) :
          Rank(ms, i) >= k => \A p \in 1..Len(sel) : sel[p].score >= ms[i].score

C6_Selection ==
    /\ pc \in {"reported", "classified", "done"} =>
          /\ SelectedTop(top_matches, matches, 5)
          /\ Len(grounds) = Len(top_matches)
          /\ \A i \in 1..Len(grounds) :
                grounds[i].idx = i /\ grounds[i].match = top_matches[i]
    /\ pc = "done" => SelectedTop(top, matches, 3)

\* C6: the report lists min(5, n) grounds numbered from 1 and the opinion
\* cites min(3, n) matches, selected by a stable descending sort on score:
\* scores not increasing, no match left out above a selected one, matches of
\* equal score in input order; and the match list is never changed.
C6_StableTopK == [](C6_Selection) /\ [][matches' = matches]_vars

C6_Witness ==
    /\ pc = "done"
    /\ Len(matches) = 6
    /\ matches[1].score = 65
    /\ matches[2].score = 100 /\ matches[2].record.numero = <<"2">>
    /\ matches[3].score = 100 /\ matches[3].record.numero = <<"1">>
    /\ matches[6].score = 65
    /\ Len(top_matches) = 5
    /\ top_matches[1] = matches[2]
    /\ top_matches[2] = matches[3]
    /\ Len(top) = 3

(***************************************************************************)
(* The report of a run, list of matches empty or not.                      *)
(***************************************************************************)
NoPriorRecordsLine == "Grounds: no prior records available for comparative assessment."
PriorMarkLine == "{idx}. Prior mark: {match.record.name}"

\* the positions of the lines of the report carrying a tag
LinesTagged(tag) == {i \in 1..Len(report) : report[i].tag = tag}

\* the numbers of the grounds of the report, in the order of their lines
GroundNumbers == [k \in 1..Cardinality(LinesTagged(PriorMarkLine)) |->
    report[CHOOSE i \in LinesTagged(PriorMarkLine) :
               Cardinality({j \in LinesTagged(PriorMarkLine) : j < i}) = k - 1].idx]

\* the risk section with the result LOW RISK, then the line of no prior
\* records, then the recommendations, then the professional note
EmptyListReport ==
    \E i \in LinesTagged("IV. Risk Determination") :
    \E j \in LinesTagged("V. Recommendations (next steps)") :
    \E k \in LinesTagged("VI. Professional Note") :
        /\ report[i + 1].tag = "Result: {risk_level}"
        /\ report[i + 1].text = "LOW RISK"
        /\ report[i + 2].tag = NoPriorRecordsLine
        /\ i + 2 < j /\ j < k /\ k < Len(report)
        /\ \E r \in LinesTagged("- {rec}") : j < r /\ r < k
        /\ LinesTagged(PriorMarkLine) = {}

\* C11: for the empty match list the report still has its risk section with
\* the result LOW RISK and the grounds line "no prior records available",
\* followed by the recommendations and the professional note; for a
\* non-empty list that line never appears and between one and five grounds
\* appear, numbered from 1.
C11_ReportOfEmptyAndNonEmptyList ==
    pc \in {"reported", "classified", "done"} =>
        /\ matches = <<>> => EmptyListReport
        /\ matches # <<>> =>
              /\ LinesTagged(NoPriorRecordsLine) = {}
              /\ Len(GroundNumbers) \in 1..5
              /\ Len(GroundNumbers) = (IF Len(matches) < 5 THEN Len(matches) ELSE 5)
              /\ \A k \in 1..Len(GroundNumbers) : GroundNumbers[k] = k
              /\ \E h \in LinesTagged("Grounds (top indications):") :
                    \A i \in LinesTagged(PriorMarkLine) : h < i

C11_Witness ==
    /\ pc = "reported"
    /\ matches = <<>>
    /\ report_risk = "LOW RISK"
    /\ LinesTagged(NoPriorRecordsLine) # {}
    /\ LinesTagged("Grounds (top indications):") = {}

(***************************************************************************)
(* generate_legal_opinion applied to every tier and every bounded list of  *)
(* matches.                                                                *)
(***************************************************************************)
RiskTiers == {"HIGH RISK", "MEDIUM RISK", "LOW RISK"}

InitOpinion ==
    /\ pc = "classified"
    /\ matches \in BoundedSeq(SampleMatches, MaxMatches)
    /\ risk_level \in RiskTiers
    /\ top_matches = <<>>
    /\ grounds = <<>>
    /\ report_risk = ""
    /\ highest = 0
    /\ top = <<>>
    /\ report = <<>>
    /\ opinion = NoOpinion
    /\ match = NoMatch
    /\ signals = NoSignals
    /\ score = 0
    /\ IdleSoundex
    /\ IdleMatchInput
    /\ IdleNcl
    /\ IdleSim
    /\ reason = ""
    /\ IdleLoad
    /\ IdleServer

NextOpinion == GenerateLegalOpinion

SpecOpinion == InitOpinion /\ [][NextOpinion]_vars

\* the text the opinion is to cite for a list of matches: the references of
\* its up to three strongest matches joined by "; ", the placeholder for the
\* empty list
CitationOf(ms) ==
    IF ms = <<>> THEN "anterioridades relevantes"
    ELSE JoinStr([i \in 1..Len(StableTop(ms, 3)) |-> opinion_ref(StableTop(ms, 3)[i])], "; ")

\* the grounds paragraph of the opinion carries the citation
OpinionCites == \E i \in 1..Len(opinion.sintese) : opinion.sintese[i] = CitationOf(matches)

TextualClause(r) ==
    IF RatioGE(r, 4, 5) THEN 2 ELSE IF RatioGE(r, 13, 20) THEN 1 ELSE 0

\* the rationale made of the clauses present, in the order textual,
\* phonetic, class, status, each clause after the first preceded by "; "
RationaleOf(textual, phonetic, class, active) ==
    LET t == IF textual = 2 THEN "high textual proximity"
             ELSE IF textual = 1 THEN "moderate textual proximity" ELSE ""
        p == IF phonetic
             THEN (IF textual # 0 THEN "; " ELSE "") \o "phonetic overlap under Soundex"
             ELSE ""
        c == IF class
             THEN (IF textual # 0 \/ phonetic THEN "; " ELSE "") \o "identical Nice class"
             ELSE ""
        a == IF active
             THEN (IF textual # 0 \/ phonetic \/ class THEN "; " ELSE "")
                  \o "prior mark appears active/registered"
             ELSE ""
    IN IF textual = 0 /\ ~phonetic /\ ~class /\ ~active
       THEN "limited overlap indicators"
       ELSE t \o p \o c \o a

\* the rationale carries the status clause
HasActiveClause ==
    reason = RationaleOf(TextualClause(match.text_similarity), match.phonetic_match,
                         match.same_class, TRUE)

\* C15: the rationale is never empty; it is the clauses that apply, in the
\* order textual, phonetic, class, status, joined by "; ": the textual clause
\* iff similarity >= 0.65 (high iff >= 0.80, else moderate), "limited overlap
\* indicators" iff no clause applies; the status clause is present exactly
\* when calculate_match added the +15 of the active status.
C15_Rationale ==
    pc = "reason_done" =>
        /\ reason # ""
        /\ \E active \in BOOLEAN :
              /\ reason = RationaleOf(TextualClause(match.text_similarity),
                                      match.phonetic_match, match.same_class, active)
              /\ active = MatchedActive
              /\ match.score = Min({100, TierBonus(match.text_similarity)
                                         + Bonus(match.phonetic_match, 25)
                                         + Bonus(match.same_class, 25)
                                         + Bonus(active, 15)})
        /\ HasActiveClause <=> MatchedActive
        /\ (reason = "limited overlap indicators") <=>
              /\ ~RatioGE(match.text_similarity, 65, 100)
              /\ ~match.phonetic_match /\ ~match.same_class /\ ~MatchedActive

\* a similarity of 0.6 earns the bonus of its tier and no textual clause
C15_Witness ==
    /\ pc = "reason_done"
    /\ RatioGE(match.text_similarity, 60, 100)
    /\ ~RatioGE(match.text_similarity, 65, 100)
    /\ match.same_class
    /\ MatchedActive
    /\ reason = "identical Nice class; prior mark appears active/registered"

(***************************************************************************)
(* calculate_match applied to records of every sample status: a phrase of  *)
(* ACTIVE_STATUSES, or a text that holds none, between a prefix and a       *)
(* suffix.                                                                 *)
(***************************************************************************)
StatusPrefixes ==
    {<<>>,
     <<"i", "n">>,
     <<"u", "n">>,
     <<"n", "o", "t", " ">>,
     <<"I", "N">>,
     <<" ">>}

StatusCores ==
    {<<"A", "c", "t", "i", "v", "e">>,
     <<"r", "e", "g", "i", "s", "t", "e", "r", "e", "d">>,
     <<"G", "r", "a", "n", "t", "e", "d">>,
     <<"V", "I", "G", "E", "N", "T", "E">>,
     <<"d", "e", "f", "e", "r", "i", "d", "a">>,
     <<"d", "e", "f", "e", "r", "i", "d", "o">>,
     <<"E", "m", " ", " ", "V", "i", "g", "o", "r">>,
     <<"R", "e", "g", "i", "s", "t", "r", "o", " ", "d", "e", " ", "m", "a", "r", "c", "a", " ", "e", "m", " ", "v", "i", "g", "o", "r">>,
     <<>>,
     <<"N", "/", "D">>,
     <<"e", "x", "p", "i", "r", "e", "d">>,
     <<"a", "c", "t", "i", "v">>,
     <<"r", "e", "g", "i", "s", "t", " ", "e", "r", "e", "d">>}

StatusSuffixes ==
    {<<>>,
     <<" ", "x">>,
     <<"s">>}

StatusTexts == {p \o c \o s : p \in StatusPrefixes, c \in StatusCores, s \in StatusSuffixes}

InitStatus ==
    /\ pc = "match_call"
    /\ candidate_name = RunCandidate
    /\ candidate_class = Class30
    /\ \E n \in {<<"B">>, <<"b", " ", "B">>}, c \in {Class30, Class10}, st \in StatusTexts :
          record = [name |-> n, nice_class |-> c, status |-> st,
                    numero |-> <<>>, titular |-> <<>>]
    /\ IdleScore
    /\ IdleSoundex
    /\ IdleNcl
    /\ IdleSim
    /\ IdleReport
    /\ IdleLoad
    /\ IdleServer

SpecStatus == InitStatus /\ [][NextMatch]_vars

\* the normalized status of the record that was matched
MatchedStatus == normalize_text(match.record.status)

\* some listed phrase stands somewhere in the normalized status
HoldsActivePhrase ==
    \E i \in 1..Len(MatchedStatus), j \in 1..Len(MatchedStatus) :
        SubSeq(MatchedStatus, i, j) \in ACTIVE_STATUSES

\* the score without the bonus of the status
ScoreBeforeStatus ==
    TierBonus(match.text_similarity) + Bonus(match.phonetic_match, 25)
    + Bonus(match.same_class, 25)

NegatedStatuses ==
    {<<"i", "n", "a", "c", "t", "i", "v", "e">>,
     <<"u", "n", "r", "e", "g", "i", "s", "t", "e", "r", "e", "d">>,
     <<"n", "o", "t", " ", "r", "e", "g", "i", "s", "t", "e", "r", "e", "d">>,
     <<"i", "n", "d", "e", "f", "e", "r", "i", "d", "o">>,
     <<"i", "n", "d", "e", "f", "e", "r", "i", "d", "a">>}

\* C16: the active bonus of +15 goes to every record whose normalized status
\* holds a listed phrase anywhere, with no word boundary and no negation
\* handling: "inactive", "unregistered", "not registered", "indeferido" and
\* "indeferida" receive it; the empty status and "N/D" never do.
C16_SubstringTest ==
    pc \in {"match_done", "reason_done"} =>
        /\ match.score = Min({100, ScoreBeforeStatus + Bonus(HoldsActivePhrase, 15)})
        /\ ScoreBeforeStatus <= 85
        /\ MatchedStatus \in NegatedStatuses => match.score = ScoreBeforeStatus + 15
        /\ MatchedStatus \in {<<>>, <<"n", "/", "d">>} => match.score = ScoreBeforeStatus

C16_Witness ==
    /\ pc = "match_done"
    /\ MatchedStatus = <<"i", "n", "a", "c", "t", "i", "v", "e">>
    /\ match.same_class
    /\ match.score = ScoreBeforeStatus + 15

(***************************************************************************)
(* The CSV loader (read_records).  The file is its existence, the header   *)
(* row csv.DictReader takes as fieldnames and the data rows, a row being   *)
(* the list of its cells.                                                  *)
(***************************************************************************)
\* str.strip()
RECURSIVE lstrip(_)
lstrip(s) == IF s # <<>> /\ IsSpace(s[1]) THEN lstrip(Tail(s)) ELSE s

RECURSIVE rstrip(_)
rstrip(s) == IF s # <<>> /\ IsSpace(s[Len(s)]) THEN rstrip(SubSeq(s, 1, Len(s) - 1)) ELSE s

strip(s) == rstrip(lstrip(s))

\* lines 114-122
NAME_OPTIONS ==
    <<<<"e", "x", "i", "s", "t", "i", "n", "g", " ", "t", "r", "a", "d", "e", "m", "a", "r", "k", " ", "n", "a", "m", "e">>,
      <<"t", "r", "a", "d", "e", "m", "a", "r", "k", " ", "n", "a", "m", "e">>,
      <<"n", "a", "m", "e">>,
      <<"m", "a", "r", "c", "a">>,
      <<"n", "o", "m", "e">>>>

\* line 123
CLASS_OPTIONS ==
    <<<<"c", "l", "a", "s", "s">>,
      <<"n", "i", "c", "e", " ", "c", "l", "a", "s", "s">>,
      <<"c", "l", "a", "s", "s", "e">>,
      <<"n", "c", "l">>>>

\* line 124
STATUS_OPTIONS ==
    <<<<"s", "t", "a", "t", "u", "s">>,
      <<"s", "i", "t", "u", "a", "t", "i", "o", "n">>,
      <<"s", "i", "t", "u", "a", "c", "a", "o">>,
      <<"s", "i", "t", "u", "a", "ç", "ã", "o">>>>

\* line 127
NUMERO_OPTIONS ==
    <<<<"n", "u", "m", "e", "r", "o">>,
      <<"n", "ú", "m", "e", "r", "o">>,
      <<"p", "r", "o", "c", "e", "s", "s", "o">>>>

\* line 128
TITULAR_OPTIONS ==
    <<<<"t", "i", "t", "u", "l", "a", "r">>,
      <<"r", "e", "q", "u", "e", "r", "e", "n", "t", "e">>>>

\* the None of Python where a header is expected
NoHeader == [found |-> FALSE, col |-> <<>>]

\* line 106: the keys of lower_headers
header_key(h) == LowerStr(strip(h))

\* line 106: option in lower_headers
in_lower_headers(fieldnames, option) ==
    \E i \in 1..Len(fieldnames) : fieldnames[i] # <<>> /\ header_key(fieldnames[i]) = option

\* line 106: lower_headers[option], the last header written under the key
lower_headers_get(fieldnames, option) ==
    fieldnames[Max({i \in 1..Len(fieldnames) :
                       fieldnames[i] # <<>> /\ header_key(fieldnames[i]) = option})]

\* variant of resolve_header: the last listed option present wins
RECURSIVE resolve_header_last(_, _)
resolve_header_last(options, fieldnames) ==
    IF options = <<>> THEN NoHeader
    ELSE IF in_lower_headers(fieldnames, options[Len(options)])
    THEN [found |-> TRUE, col |-> lower_headers_get(fieldnames, options[Len(options)])]
    ELSE resolve_header_last(SubSeq(options, 1, Len(options) - 1), fieldnames)

\* lines 108-112
RECURSIVE resolve_header(_, _)
resolve_header(options, fieldnames) ==
    IF options = <<>> THEN NoHeader
    ELSE IF in_lower_headers(fieldnames, options[1])
    THEN [found |-> TRUE, col |-> lower_headers_get(fieldnames, options[1])]
    ELSE resolve_header(Tail(options), fieldnames)

\* (row.get(col) or "").strip(), lines 137-141: the row of csv.DictReader maps
\* a header to the cell of its last column, to None past the end of the row
row_get(fieldnames, row, header) ==
    IF ~header.found THEN <<>>
    ELSE LET i == Max({k \in 1..Len(fieldnames) : fieldnames[k] = header.col})
         IN IF i <= Len(row) THEN strip(row[i]) ELSE <<>>

\* lines 136-151: the records of the rows, a row of empty name giving none
RECURSIVE csv_records(_, _, _)
csv_records(fieldnames, rows, cols) ==
    IF rows = <<>> THEN <<>>
    ELSE LET row == rows[1]
             name == row_get(fieldnames, row, cols.name)
             rec == [name |-> name,
                     nice_class |-> row_get(fieldnames, row, cols.class),
                     status |-> row_get(fieldnames, row, cols.status),
                     numero |-> row_get(fieldnames, row, cols.numero),
                     titular |-> row_get(fieldnames, row, cols.titular)]
         IN (IF name # <<>> THEN <<rec>> ELSE <<>>)
            \o csv_records(fieldnames, Tail(rows), cols)

\* variant of read_records: the check of lines 156-157 is left out
read_records_allowing_empty(file) ==
    IF ~file.exists
    THEN [error |-> "FileNotFoundError", records |-> <<>>]
    ELSE IF file.fieldnames = <<>>
    THEN [error |-> "ValueError: The dataset is empty or missing headers.", records |-> <<>>]
    ELSE LET cols == [name |-> resolve_header(NAME_OPTIONS, file.fieldnames),
                      class |-> resolve_header(CLASS_OPTIONS, file.fieldnames),
                      status |-> resolve_header(STATUS_OPTIONS, file.fieldnames),
                      numero |-> resolve_header(NUMERO_OPTIONS, file.fieldnames),
                      titular |-> resolve_header(TITULAR_OPTIONS, file.fieldnames)]
         IN IF ~(cols.name.found /\ cols.class.found /\ cols.status.found)
            THEN [error |-> "ValueError: Dataset headers must include columns for trademark name, class, and status.",
                  records |-> <<>>]
            ELSE [error |-> "", records |-> csv_records(file.fieldnames, file.rows, cols)]

\* read_records, lines 97-159: the exception raised ("" when it returns) and
\* the list returned
read_records(file) ==
    IF ~file.exists
    THEN [error |-> "FileNotFoundError", records |-> <<>>]
    ELSE IF file.fieldnames = <<>>
    THEN [error |-> "ValueError: The dataset is empty or missing headers.", records |-> <<>>]
    ELSE LET cols == [name |-> resolve_header(NAME_OPTIONS, file.fieldnames),
                      class |-> resolve_header(CLASS_OPTIONS, file.fieldnames),
                      status |-> resolve_header(STATUS_OPTIONS, file.fieldnames),
                      numero |-> resolve_header(NUMERO_OPTIONS, file.fieldnames),
                      titular |-> resolve_header(TITULAR_OPTIONS, file.fieldnames)]
             recs == csv_records(file.fieldnames, file.rows, cols)
         IN IF ~(cols.name.found /\ cols.class.found /\ cols.status.found)
            THEN [error |-> "ValueError: Dataset headers must include columns for trademark name, class, and status.",
                  records |-> <<>>]
            ELSE IF recs = <<>>
            THEN [error |-> "ValueError: Dataset contains no valid trademark records.",
                  records |-> <<>>]
            ELSE [error |-> "", records |-> recs]

\* header rows: the synonyms in either case and padded, two synonyms of the
\* name, one header twice, a required column missing, no header row, an
\* empty header
HeaderRows ==
    {<<<<"n", "a", "m", "e">>, <<"c", "l", "a", "s", "s">>, <<"s", "t", "a", "t", "u", "s">>>>,
     <<<<" ", "M", "a", "r", "c", "a", " ">>, <<"N", "C", "L">>, <<"S", "i", "t", "u", "a", "c", "a", "o">>, <<"n", "u", "m", "e", "r", "o">>, <<"t", "i", "t", "u", "l", "a", "r">>>>,
     <<<<"n", "o", "m", "e">>, <<"m", "a", "r", "c", "a">>, <<"c", "l", "a", "s", "s", "e">>, <<"s", "t", "a", "t", "u", "s">>>>,
     <<<<"n", "a", "m", "e">>, <<"N", "a", "m", "e">>, <<"c", "l", "a", "s", "s">>, <<"s", "t", "a", "t", "u", "s">>>>,
     <<<<"n", "a", "m", "e">>, <<"s", "t", "a", "t", "u", "s">>>>,
     <<>>,
     <<<<"c", "l", "a", "s", "s">>, <<"s", "t", "a", "t", "u", "s">>, <<"p", "r", "o", "c", "e", "s", "s", "o">>>>,
     <<<<"t", "r", "a", "d", "e", "m", "a", "r", "k", " ", "n", "a", "m", "e">>, <<"n", "i", "c", "e", " ", "c", "l", "a", "s", "s">>, <<"s", "i", "t", "u", "a", "t", "i", "o", "n">>, <<"r", "e", "q", "u", "e", "r", "e", "n", "t", "e">>>>,
     <<<<"n", "a", "m", "e">>, <<"c", "l", "a", "s", "s">>>>,
     <<<<>>, <<"N", "o", "m", "e">>, <<"C", "l", "a", "s", "s">>, <<"S", "T", "A", "T", "U", "S">>>>}

\* data rows: full, short and padded, of empty name, of blank name, of empty
\* class and status
DataRows ==
    {<<<<"A", "b", " ", "b">>, <<"3", "0">>, <<"v", "i", "g", "e", "n", "t", "e">>, <<"1">>, <<"x">>>>,
     <<<<" ", "B", " ">>, <<"1", "0">>, <<" ", "E", "x", "p", "i", "r", "e", "d", " ">>>>,
     <<<<>>, <<"3", "0">>, <<"v", "i", "g", "e", "n", "t", "e">>, <<"2">>>>,
     <<<<" ">>, <<"3", "0">>>>,
     <<<<"a", "b", "b">>, <<>>, <<>>, <<"3">>, <<"y">>>>}

\* the files of up to n data rows, and the missing file
Datasets(n) ==
    {NoDataset} \cup
    {[exists |-> TRUE, fieldnames |-> h, rows |-> rs] :
        h \in HeaderRows, rs \in BoundedSeq(DataRows, n)}

InitCsv ==
    /\ pc = "read_call"
    /\ dataset \in Datasets(MaxCsvRows)
    /\ csv_read = FALSE
    /\ inpi = NoFetch
    /\ inpi_records = <<>>
    /\ records = <<>>
    /\ source = ""
    /\ error = ""
    /\ IdleScore
    /\ IdleSoundex
    /\ IdleMatchInput
    /\ IdleNcl
    /\ IdleSim
    /\ IdleReport
    /\ IdleServer

\* read_records(DATASET_PATH)
ReadRecords ==
    /\ pc = "read_call"
    /\ csv_read' = TRUE
    /\ records' = read_records(dataset).records
    /\ error' = read_records(dataset).error
    /\ pc' = IF read_records(dataset).error = "" THEN "read_done" ELSE "raised"
    /\ UNCHANGED <<dataset, inpi, inpi_records, source, scoreVars, soundexVars, matchInputVars,
                   nclVars, simVars, reportVars, serverVars>>

NextCsv == ReadRecords

SpecCsv == InitCsv /\ [][NextCsv]_vars

\* a column of the file is headed by the synonym, whatever its case and padding
Present(option) ==
    \E c \in 1..Len(dataset.fieldnames) : LowerStr(strip(dataset.fieldnames[c])) = option

Resolved(options) == \E k \in 1..Len(options) : Present(options[k])

\* the first synonym, in the listed order, that heads a column
Winner(options) == options[Min({k \in 1..Len(options) : Present(options[k])})]

\* the stripped cell of row k under the winning synonym (the last column it
\* heads); empty where the row ends before it or no synonym heads a column
CellOf(k, options) ==
    IF ~Resolved(options) THEN <<>>
    ELSE LET c == Max({d \in 1..Len(dataset.fieldnames) :
                          LowerStr(strip(dataset.fieldnames[d])) = Winner(options)})
         IN IF c <= Len(dataset.rows[k]) THEN strip(dataset.rows[k][c]) ELSE <<>>

\* the rows of non-empty name, and the i-th of them in file order
NamedRows == {k \in 1..Len(dataset.rows) : CellOf(k, NAME_OPTIONS) # <<>>}
NamedRow(i) == CHOOSE k \in NamedRows : Cardinality({j \in NamedRows : j < k}) = i - 1

\* C14: read_records either raises or returns a non-empty list, in file row
\* order, of records of non-empty stripped name.  It raises when the file is
\* missing, has no header row, lacks a column for name, class or status
\* (synonyms matched whatever their case, the first listed synonym present
\* winning), or has no row of non-empty name; rows of empty name are
\* dropped; a missing numero or titular column gives empty strings.
C14_ReadRecords ==
    pc \in {"read_done", "raised"} =>
        /\ (pc = "raised") <=>
              \/ ~dataset.exists
              \/ dataset.fieldnames = <<>>
              \/ ~Resolved(NAME_OPTIONS) \/ ~Resolved(CLASS_OPTIONS) \/ ~Resolved(STATUS_OPTIONS)
              \/ NamedRows = {}
        /\ pc = "raised" => error # "" /\ records = <<>>
        /\ pc = "read_done" =>
              /\ error = ""
              /\ records # <<>>
              /\ Len(records) = Cardinality(NamedRows)
              /\ \A i \in 1..Len(records) :
                    /\ records[i].name # <<>>
                    /\ Stripped(records[i].name)
                    /\ records[i].name = CellOf(NamedRow(i), NAME_OPTIONS)
                    /\ records[i].nice_class = CellOf(NamedRow(i), CLASS_OPTIONS)
                    /\ records[i].status = CellOf(NamedRow(i), STATUS_OPTIONS)
                    /\ records[i].numero = CellOf(NamedRow(i), NUMERO_OPTIONS)
                    /\ records[i].titular = CellOf(NamedRow(i), TITULAR_OPTIONS)
                    /\ ~Resolved(NUMERO_OPTIONS) => records[i].numero = <<>>
                    /\ ~Resolved(TITULAR_OPTIONS) => records[i].titular = <<>>

\* a file headed nome, marca, classe, status: marca is listed before nome and
\* names the records; the row of empty marca cell is dropped
C14_Witness ==
    /\ pc = "read_done"
    /\ Present(NAME_OPTIONS[4]) /\ Present(NAME_OPTIONS[5])
    /\ Len(dataset.rows) = 2
    /\ Len(records) = 1
    /\ NamedRows = {2}
    /\ records[1].name = <<"3", "0">>
    /\ records[1].numero = <<>>

(***************************************************************************)
(* The INPI loader and load_records.  fetch_inpi_by_class either raises or *)
(* returns rows (INPIRecord: marca, classe, situacao, numero, titular).     *)
(***************************************************************************)
\* variant of record_of_row: an empty class or status is left empty
record_of_row_without_defaults(r, nice_class) ==
    [name |-> strip(r.marca),
     nice_class |-> strip(r.classe),
     status |-> strip(r.situacao),
     numero |-> strip(r.numero),
     titular |-> strip(r.titular)]

\* lines 185-189 and 193-199: the record made of one row
record_of_row(r, nice_class) ==
    [name |-> strip(r.marca),
     nice_class |-> strip(IF r.classe # <<>> THEN r.classe ELSE nice_class),
     status |-> strip(IF r.situacao # <<>> THEN r.situacao ELSE <<"N", "/", "D">>),
     numero |-> strip(r.numero),
     titular |-> strip(r.titular)]

\* line 191
record_key(rec) ==
    <<normalize_text(rec.name), normalize_text(rec.nice_class), normalize_text(rec.status)>>

\* variant of inpi_loop: no key is ever added to seen
RECURSIVE inpi_loop_without_seen(_, _, _, _)
inpi_loop_without_seen(rows, nice_class, seen, all_records) ==
    IF rows = <<>> THEN all_records
    ELSE LET rec == record_of_row(rows[1], nice_class)
         IN IF rec.name # <<>> /\ record_key(rec) \notin seen
            THEN inpi_loop_without_seen(Tail(rows), nice_class, seen, Append(all_records, rec))
            ELSE inpi_loop_without_seen(Tail(rows), nice_class, seen, all_records)

\* lines 184-202: the loop over the rows
RECURSIVE inpi_loop(_, _, _, _)
inpi_loop(rows, nice_class, seen, all_records) ==
    IF rows = <<>> THEN all_records
    ELSE LET rec == record_of_row(rows[1], nice_class)
         IN IF rec.name # <<>> /\ record_key(rec) \notin seen
            THEN inpi_loop(Tail(rows), nice_class, seen \cup {record_key(rec)},
                           Append(all_records, rec))
            ELSE inpi_loop(Tail(rows), nice_class, seen, all_records)

\* load_records_from_inpi, lines 167-204
load_records_from_inpi(fetch, nice_class) ==
    IF fetch.raises THEN <<>>
    ELSE IF fetch.rows = <<>> THEN <<>>
    ELSE inpi_loop(fetch.rows, nice_class, {}, <<>>)

\* variant of load_records: the CSV file is read first
load_records_csv_first(fetch, nice_class, file) ==
    LET inpi_records_ == load_records_from_inpi(fetch, nice_class)
        csv == read_records(file)
    IN IF csv.error = ""
       THEN [inpi_records |-> inpi_records_, csv_read |-> TRUE,
             records |-> csv.records, source |-> "CSV", error |-> ""]
       ELSE [inpi_records |-> inpi_records_, csv_read |-> TRUE,
             records |-> inpi_records_, source |-> "INPI", error |-> ""]

\* load_records, lines 207-211, file being the CSV file as read_records
\* finds it: the local inpi_records, whether the file was read, the pair
\* returned and the exception raised ("" when it returns)
load_records(fetch, nice_class, file) ==
    LET inpi_records_ == load_records_from_inpi(fetch, nice_class)
        csv == read_records(file)
    IN IF inpi_records_ # <<>>
       THEN [inpi_records |-> inpi_records_, csv_read |-> FALSE,
             records |-> inpi_records_, source |-> "INPI", error |-> ""]
       ELSE [inpi_records |-> inpi_records_, csv_read |-> TRUE,
             records |-> csv.records, source |-> IF csv.error = "" THEN "CSV" ELSE "",
             error |-> csv.error]

\* rows of the provider: a mark, the same mark in another case and spacing
\* under another number, a row of empty class and status, a row of empty
\* name, a row equal to the third once the defaults are applied
InpiRows ==
    {[marca |-> <<"A", "b", " ", "b">>, classe |-> <<"3", "0">>, situacao |-> <<"v", "i", "g", "e", "n", "t", "e">>,
      numero |-> <<"1">>, titular |-> <<>>],
     [marca |-> <<"A", "B", " ", " ", "B">>, classe |-> <<"3", "0">>, situacao |-> <<"V", "i", "g", "e", "n", "t", "e">>,
      numero |-> <<"2">>, titular |-> <<"x">>],
     [marca |-> <<"a", "b", "b">>, classe |-> <<>>, situacao |-> <<>>,
      numero |-> <<"3">>, titular |-> <<>>],
     [marca |-> <<>>, classe |-> <<"3", "0">>, situacao |-> <<"v", "i", "g", "e", "n", "t", "e">>,
      numero |-> <<"4">>, titular |-> <<>>],
     [marca |-> <<"A", "b", "b">>, classe |-> <<"3", "0">>, situacao |-> <<"N", "/", "D">>,
      numero |-> <<"5">>, titular |-> <<"y">>]}

\* what fetch_inpi_by_class does: it raises, or returns up to n rows
FetchOutcomes(n) ==
    {[raises |-> TRUE, rows |-> <<>>]}
    \cup {[raises |-> FALSE, rows |-> rs] : rs \in BoundedSeq(InpiRows, n)}

(***************************************************************************)
(* A run of main (lines 469-485): the three inputs, load_records, the      *)
(* matches, the report, the tier and the opinion.                          *)
(***************************************************************************)
RawNames == {<<" ", "A", "b", " ", "b", " ">>, <<" ">>}
RawClasses == {Class30, <<" ">> \o ClassNCL8_30, <<>>}
RawSegments == {<<"x">>, <<>>}

InitMain ==
    /\ pc = "main_start"
    /\ inpi \in FetchOutcomes(MaxInpiRows)
    /\ dataset = NoDataset
    /\ csv_read = FALSE
    /\ inpi_records = <<>>
    /\ records = <<>>
    /\ source = ""
    /\ error = ""
    /\ IdleMatchInput
    /\ IdleScore
    /\ IdleSoundex
    /\ IdleNcl
    /\ IdleSim
    /\ IdleReport
    /\ IdleServer

\* lines 471-476: the inputs are read and stripped; an empty one ends the run
ReadInputs ==
    /\ pc = "main_start"
    /\ \E raw_name \in RawNames, raw_class \in RawClasses, raw_segment \in RawSegments :
          /\ candidate_name' = strip(raw_name)
          /\ candidate_class' = strip(raw_class)
          /\ IF strip(raw_name) = <<>> \/ strip(raw_class) = <<>> \/ strip(raw_segment) = <<>>
             THEN /\ error' = "ValueError: All inputs are required: trademark name, Nice class, business segment."
                  /\ pc' = "raised"
             ELSE /\ error' = ""
                  /\ pc' = "load_call"
    /\ UNCHANGED <<record, inpi, dataset, csv_read, inpi_records, records, source,
                   scoreVars, soundexVars, nclVars, simVars, reportVars, serverVars>>

\* line 478: load_records; the CSV file is as it stands when read_records
\* opens it, and is not looked at when line 210 returns
LoadRecords ==
    /\ pc = "load_call"
    /\ \E file \in IF load_records_from_inpi(inpi, candidate_class) # <<>>
                    THEN {dataset} ELSE Datasets(MaxMainCsvRows) :
          LET r == load_records(inpi, candidate_class, file)
          IN /\ inpi_records' = r.inpi_records
             /\ csv_read' = r.csv_read
             /\ dataset' = IF r.csv_read THEN file ELSE dataset
             /\ records' = r.records
             /\ source' = r.source
             /\ error' = r.error
             /\ pc' = IF r.error = "" THEN "loaded" ELSE "raised"
    /\ UNCHANGED <<inpi, matchInputVars, scoreVars, soundexVars, nclVars, simVars,
                   reportVars, serverVars>>

\* line 480
CalculateMatches ==
    /\ pc = "loaded"
    /\ matches' = [i \in 1..Len(records) |->
                      calculate_match(candidate_name, candidate_class, records[i])]
    /\ pc' = "report_call"
    /\ UNCHANGED <<top_matches, grounds, report_risk, highest, top, report, opinion,
                   loadVars, matchInputVars, scoreVars, soundexVars, nclVars, simVars,
                   serverVars>>

NextMain ==
    \/ ReadInputs
    \/ LoadRecords
    \/ CalculateMatches
    \/ GenerateReport
    \/ ClassifyHighest
    \/ GenerateLegalOpinion

SpecMain == InitMain /\ [][NextMain]_vars

\* load_records has been called and has returned or raised
LoadReturned == pc \in {"loaded", "report_call", "reported", "classified", "done"}
LoadRaised == pc = "raised" /\ csv_read
LoadEnded == LoadReturned \/ LoadRaised

\* the provider raises, returns no row, or returns rows of empty name only
ProviderYieldsNothing ==
    \/ inpi.raises
    \/ \A k \in 1..Len(inpi.rows) : strip(inpi.rows[k].marca) = <<>>

CsvErrors ==
    {"FileNotFoundError",
     "ValueError: The dataset is empty or missing headers.",
     "ValueError: Dataset headers must include columns for trademark name, class, and status.",
     "ValueError: Dataset contains no valid trademark records."}

\* C13: a failure of the INPI provider never reaches the core as an
\* exception: when the provider raises, returns no row or returns only rows
\* of empty name, load_records_from_inpi returns the empty list and
\* load_records falls back to the CSV provider, whose outcome is its own (its
\* records under the label "CSV", or the error of read_records); the label
\* is "INPI" iff INPI yielded at least one record, and the CSV file is then
\* never read.
C13_ProviderFallback ==
    LoadEnded =>
        /\ ProviderYieldsNothing <=> inpi_records = <<>>
        /\ ProviderYieldsNothing =>
              /\ csv_read
              /\ dataset \in Datasets(MaxMainCsvRows)
              /\ LoadReturned =>
                    /\ source = "CSV"
                    /\ error = ""
                    /\ read_records(dataset).error = ""
                    /\ records = read_records(dataset).records
              /\ LoadRaised =>
                    /\ error \in CsvErrors
                    /\ error = read_records(dataset).error
        /\ (source = "INPI") <=> (LoadReturned /\ Len(inpi_records) >= 1)
        /\ source = "INPI" =>
              /\ ~csv_read
              /\ dataset = NoDataset
              /\ records = inpi_records
              /\ error = ""
        /\ source \in {"INPI", "CSV", ""}
        /\ (source = "") <=> LoadRaised

\* the provider raised and the run goes on with the records of the CSV file
C13_Witness ==
    /\ pc = "loaded"
    /\ inpi.raises
    /\ inpi_records = <<>>
    /\ csv_read
    /\ source = "CSV"
    /\ Len(dataset.rows) = 1
    /\ Len(records) = 1
    /\ error = ""

\* C17: load_records never returns an empty list: it returns a non-empty
\* list or raises.  So in a run of main the list of matches handed to
\* generate_report and generate_legal_opinion is never empty, and neither the
\* line "no prior records available" of the report nor the placeholder of
\* the opinion is ever produced.
C17_NeverEmptyThroughMain ==
    /\ LoadReturned => records # <<>> /\ error = ""
    /\ LoadRaised => records = <<>> /\ error # ""
    /\ pc \in {"report_call", "reported", "classified", "done"} =>
          /\ matches # <<>>
          /\ Len(matches) = Len(records)
    /\ pc \in {"reported", "classified", "done"} =>
          /\ LinesTagged(NoPriorRecordsLine) = {}
          /\ LinesTagged(PriorMarkLine) # {}
    /\ pc = "done" =>
          \A i \in 1..Len(opinion.sintese) : opinion.sintese[i] # "anterioridades relevantes"

\* a run on the CSV fallback with one record, printed to the end
C17_Witness ==
    /\ pc = "done"
    /\ csv_read
    /\ source = "CSV"
    /\ Len(matches) = 1
    /\ report # <<>>
    /\ opinion # NoOpinion

\* C18: a row of the INPI provider with an empty class field gets the class
\* of the candidate (and an empty status becomes "N/D"), so that
\* calculate_match against that candidate class finds the same class and
\* adds the +25; the status that was missing earns no active bonus.
C18_EmptyClassTakesCandidateClass ==
    (pc \in {"report_call", "reported", "classified", "done"} /\ source = "INPI") =>
        \A k \in 1..Len(inpi.rows) :
            (inpi.rows[k].classe = <<>> /\ strip(inpi.rows[k].marca) # <<>>) =>
                \E i \in 1..Len(records) :
                    /\ normalize_text(records[i].name) = normalize_text(inpi.rows[k].marca)
                    /\ normalize_text(records[i].nice_class) = normalize_text(candidate_class)
                    /\ matches[i].record = records[i]
                    /\ matches[i].same_class
                    /\ inpi.rows[k].situacao = <<>> =>
                          /\ normalize_text(records[i].status) = <<"n", "/", "d">>
                          /\ matches[i].score =
                                Min({100, TierBonus(matches[i].text_similarity)
                                          + Bonus(matches[i].phonetic_match, 25) + 25})
                    /\ matches[i].score >= 25

\* the row of empty class and status, kept under the class "NCL(8) 30" typed
\* for the candidate
C18_Witness ==
    /\ pc = "report_call"
    /\ source = "INPI"
    /\ candidate_class = ClassNCL8_30
    /\ \E i \in 1..Len(records) :
          /\ records[i].numero = <<"3">>
          /\ records[i].nice_class = ClassNCL8_30
          /\ records[i].status = StatusND
          /\ matches[i].same_class
          /\ matches[i].score = 90

\* the key of row k of the provider
RowKey(k) ==
    LET rec == record_of_row(inpi.rows[k], candidate_class)
    IN <<normalize_text(rec.name), normalize_text(rec.nice_class), normalize_text(rec.status)>>

\* the rows of non-empty name that no earlier row of non-empty name shares
\* its key with, and the i-th of them
FirstRows ==
    {k \in 1..Len(inpi.rows) :
        /\ strip(inpi.rows[k].marca) # <<>>
        /\ \A j \in 1..(k - 1) : strip(inpi.rows[j].marca) # <<>> => RowKey(j) # RowKey(k)}
FirstRow(i) == CHOOSE k \in FirstRows : Cardinality({j \in FirstRows : j < k}) = i - 1

\* C19: the list load_records_from_inpi returns holds only records of
\* non-empty name, no two of them with the same key (normalized name,
\* normalized class, normalized status); for each key it keeps the first row
\* carrying it, with the numero and titular of that row, and the order of
\* the rows is preserved.
C19_FirstRowPerKey ==
    LoadEnded =>
        /\ \A i \in 1..Len(inpi_records) : inpi_records[i].name # <<>>
        /\ \A i \in 1..Len(inpi_records), j \in 1..Len(inpi_records) :
              i # j => record_key(inpi_records[i]) # record_key(inpi_records[j])
        /\ inpi.raises => inpi_records = <<>>
        /\ ~inpi.raises =>
              /\ Len(inpi_records) = Cardinality(FirstRows)
              /\ \A i \in 1..Len(inpi_records) :
                    /\ record_key(inpi_records[i]) = RowKey(FirstRow(i))
                    /\ inpi_records[i].numero = strip(inpi.rows[FirstRow(i)].numero)
                    /\ inpi_records[i].titular = strip(inpi.rows[FirstRow(i)].titular)
                    /\ inpi_records[i].name = strip(inpi.rows[FirstRow(i)].marca)

\* the mark returned twice, in two spellings, under two numbers: one record,
\* of the first number
C19_Witness ==
    /\ pc = "loaded"
    /\ source = "INPI"
    /\ Len(inpi.rows) = 3
    /\ inpi.rows[1].numero = <<"1">>
    /\ inpi.rows[2].numero = <<"2">>
    /\ inpi.rows[3].numero = <<"1">>
    /\ Len(inpi_records) = 1
    /\ inpi_records[1].numero = <<"1">>

(***************************************************************************)
(* The file server (server.py).  A path is the list of its components, the *)
(* drive first; a str argument is the list of its tokens: blanks, quotes,  *)
(* a drive, names, "." and "..".  The messages are written without the     *)
(* accents of the source.                                                  *)
(***************************************************************************)
Drives == {"C:", "D:", "E:"}

\* server.py, lines 12-15
ALLOWED_ROOTS == {<<"C:">>, <<"D:">>}

\* the working directory of the server process
Cwd == <<"C:", "other">>

\* the directories, files and symbolic links of the machine
Directories ==
    {<<"C:">>, <<"C:", "codex_data">>, <<"C:", "codex_data", "sub">>, <<"C:", "other">>,
     <<"D:">>, <<"D:", "data">>, <<"E:">>, <<"E:", "x">>}

Files == {<<"C:", "codex_data", "a.txt">>, <<"C:", "other", "b.txt">>}

Symlinks == {<<"C:", "codex_data", "link">>, <<"C:", "codex_data", "up">>}

symlink_target(p) ==
    IF p = <<"C:", "codex_data", "link">> THEN <<"E:", "x">> ELSE <<"C:", "other">>

\* s.strip(chars) for one character
RECURSIVE strip_chars(_, _)
strip_chars(s, ch) ==
    IF s # <<>> /\ s[1] = ch THEN strip_chars(Tail(s), ch)
    ELSE IF s # <<>> /\ s[Len(s)] = ch THEN strip_chars(SubSeq(s, 1, Len(s) - 1), ch)
    ELSE s

\* _clean_input, lines 21-23
clean_input(s) == strip_chars(strip_chars(strip_chars(s, " "), "\""), "'")

\* Path(s): absolute when s starts with a drive, else relative to base
path_from(base, s) == IF s # <<>> /\ s[1] \in Drives THEN s ELSE base \o s

\* Path.resolve() on Windows, first step: "." and ".." are folded lexically
RECURSIVE normpath(_, _)
normpath(done, rest) ==
    IF rest = <<>> THEN done
    ELSE IF rest[1] = "." THEN normpath(done, Tail(rest))
    ELSE IF rest[1] = ".."
    THEN normpath(IF Len(done) > 1 THEN SubSeq(done, 1, Len(done) - 1) ELSE done, Tail(rest))
    ELSE normpath(Append(done, rest[1]), Tail(rest))

\* Path.resolve(), second step: symbolic links are followed
RECURSIVE follow_links(_, _)
follow_links(done, rest) ==
    IF rest = <<>> THEN done
    ELSE IF Append(done, rest[1]) \in Symlinks
    THEN follow_links(symlink_target(Append(done, rest[1])), Tail(rest))
    ELSE follow_links(Append(done, rest[1]), Tail(rest))

\* Path.resolve() of an absolute path
resolve(p) ==
    LET n == normpath(<<p[1]>>, Tail(p))
    IN follow_links(<<n[1]>>, Tail(n))

\* p.relative_to(base) does not raise
relative_to(p, base) == Len(base) <= Len(p) /\ SubSeq(p, 1, Len(base)) = base

\* _is_under_allowed_roots, lines 26-36
is_under_allowed_roots(p) ==
    \E root \in ALLOWED_ROOTS : relative_to(resolve(p), resolve(root))

\* variant of safe_file: the check of lines 61-65 is left out
safe_file_roots_only(nome, active) ==
    LET cleaned == clean_input(nome)
        arquivo == resolve(path_from(active, cleaned))
    IN IF cleaned = <<>>
       THEN [error |-> "Nome de arquivo vazio", path |-> <<>>]
       ELSE IF ~is_under_allowed_roots(arquivo)
       THEN [error |-> "Acesso nao autorizado (fora das raizes permitidas)", path |-> <<>>]
       ELSE [error |-> "", path |-> arquivo]

\* _safe_file, lines 47-68 (with _safe_path, lines 39-44): the ValueError
\* raised ("" when it returns) and the path returned
safe_file(nome, active) ==
    LET cleaned == clean_input(nome)
        arquivo == resolve(path_from(active, cleaned))
    IN IF cleaned = <<>>
       THEN [error |-> "Nome de arquivo vazio", path |-> <<>>]
       ELSE IF ~is_under_allowed_roots(arquivo)
       THEN [error |-> "Acesso nao autorizado (fora das raizes permitidas)", path |-> <<>>]
       ELSE IF ~relative_to(arquivo, resolve(active))
       THEN [error |-> "Acesso nao autorizado (fora do diretorio ativo)", path |-> <<>>]
       ELSE [error |-> "", path |-> arquivo]

\* definir_diretorio, lines 71-87: the str returned and the new ACTIVE_DIR
definir_diretorio(caminho, active, files) ==
    LET novo == resolve(path_from(Cwd, clean_input(caminho)))
    IN IF novo \notin Directories \cup files
       THEN [reply |-> "Caminho nao existe", active |-> active]
       ELSE IF novo \notin Directories
       THEN [reply |-> "Nao e uma pasta", active |-> active]
       ELSE IF ~is_under_allowed_roots(novo)
       THEN [reply |-> "Diretorio nao permitido (fora de C:/ ou D:/)", active |-> active]
       ELSE [reply |-> "Pasta ativa: {ACTIVE_DIR}", active |-> novo]

\* the arguments the tools are called with
ToolArguments ==
    {<<>>,
     <<" ">>,
     <<"\"", "\"">>,
     <<"a.txt">>,
     <<" ", "\"", "a.txt", "\"", " ">>,
     <<"'", "\"", "n.txt", "\"", "'">>,
     <<".">>,
     <<"sub", "n.txt">>,
     <<"sub", "..", "a.txt">>,
     <<"..", "other", "b.txt">>,
     <<"..", "..", "x">>,
     <<"link", "f.txt">>,
     <<"up", "b.txt">>,
     <<"C:", "other", "b.txt">>,
     <<"C:", "codex_data", "a.txt">>,
     <<"E:", "x", "f.txt">>,
     <<"C:">>,
     <<"C:", "codex_data", "sub">>,
     <<"C:", "codex_data", "link">>,
     <<"C:", "nowhere">>,
     <<"'", "D:", "data", "'">>,
     <<"E:", "x">>,
     <<"..", "codex_data">>}

InitServer ==
    /\ pc = "serving"
    /\ ACTIVE_DIR = InitialActiveDir
    /\ written = {}
    /\ call = NoCall
    /\ reply = ""
    /\ opened = <<>>
    /\ IdleMatchInput
    /\ IdleScore
    /\ IdleSoundex
    /\ IdleNcl
    /\ IdleSim
    /\ IdleReport
    /\ IdleLoad

\* the tool definir_diretorio, lines 71-87
DefinirDiretorio ==
    /\ pc = "serving"
    /\ \E caminho \in ToolArguments :
          /\ call' = [tool |-> "definir_diretorio", arg |-> caminho]
          /\ ACTIVE_DIR' = definir_diretorio(caminho, ACTIVE_DIR, Files \cup written).active
          /\ reply' = definir_diretorio(caminho, ACTIVE_DIR, Files \cup written).reply
    /\ opened' = <<>>
    /\ UNCHANGED <<pc, written, soundexVars, matchInputVars, nclVars, simVars, scoreVars,
                   reportVars, loadVars>>

\* the tool escrever_arquivo, lines 102-107: write_text creates or overwrites
\* the file, and fails on a directory or under a missing directory
EscreverArquivo ==
    /\ pc = "serving"
    /\ \E nome \in ToolArguments :
          LET r == safe_file(clean_input(nome), ACTIVE_DIR)
              writable == /\ r.path \notin Directories
                          /\ SubSeq(r.path, 1, Len(r.path) - 1) \in Directories
          IN /\ call' = [tool |-> "escrever_arquivo", arg |-> nome]
             /\ IF r.error # ""
                THEN /\ reply' = r.error
                     /\ opened' = <<>>
                     /\ written' = written
                ELSE /\ opened' = r.path
                     /\ IF writable
                        THEN /\ r.path \in written \cup Files \/ Cardinality(written) < MaxWritten
                             /\ written' = IF r.path \in Files THEN written
                                           ELSE written \cup {r.path}
                             /\ reply' = "{nome} salvo"
                        ELSE /\ written' = written
                             /\ reply' = "OSError"
    /\ UNCHANGED <<pc, ACTIVE_DIR, soundexVars, matchInputVars, nclVars, simVars, scoreVars,
                   reportVars, loadVars>>

\* the tool ler_arquivo, lines 110-161: the file is read after _safe_file and
\* the test of line 119
LerArquivo ==
    /\ pc = "serving"
    /\ \E nome \in ToolArguments :
          LET r == safe_file(clean_input(nome), ACTIVE_DIR)
          IN /\ call' = [tool |-> "ler_arquivo", arg |-> nome]
             /\ IF r.error # ""
                THEN reply' = r.error /\ opened' = <<>>
                ELSE IF r.path \in Directories
                THEN reply' = "Isso e uma pasta, nao um arquivo." /\ opened' = <<>>
                ELSE /\ opened' = r.path
                     /\ reply' = IF r.path \in Files \cup written THEN "{best_text}"
                                 ELSE "FileNotFoundError"
    /\ UNCHANGED <<pc, ACTIVE_DIR, written, soundexVars, matchInputVars, nclVars, simVars,
                   scoreVars, reportVars, loadVars>>

NextServer == DefinirDiretorio \/ EscreverArquivo \/ LerArquivo

SpecServer == InitServer /\ [][NextServer]_vars

\* the name a file tool hands on: cleaned by the tool, then by _safe_file
CleanedName(arg) == clean_input(clean_input(arg))

\* the location the name designates from the active directory
Designated(arg) == resolve(path_from(ACTIVE_DIR, CleanedName(arg)))

\* p is the directory d or lies below it
Inside(p, d) == Len(p) >= Len(d) /\ \A i \in 1..Len(d) : p[i] = d[i]

\* the argument is empty once cleaned, or designates a location outside the
\* active directory (through "..", an absolute path or a link)
Escapes(arg) == CleanedName(arg) = <<>> \/ ~Inside(Designated(arg), ACTIVE_DIR)

SafeFileErrors ==
    {"Nome de arquivo vazio",
     "Acesso nao autorizado (fora das raizes permitidas)",
     "Acesso nao autorizado (fora do diretorio ativo)"}

DefinirErrors ==
    {"Caminho nao existe", "Nao e uma pasta", "Diretorio nao permitido (fora de C:/ ou D:/)"}

\* the target of a definir_diretorio call does not exist, is not a directory,
\* or lies under no allowed root
BadTarget(arg) ==
    LET t == resolve(path_from(Cwd, clean_input(arg)))
    IN \/ t \notin Directories
       \/ t[1] \notin {"C:", "D:"}

Confined ==
    /\ ACTIVE_DIR[1] \in {"C:", "D:"}
    /\ \E root \in ALLOWED_ROOTS : Inside(ACTIVE_DIR, root)
    /\ opened # <<>> => Inside(opened, ACTIVE_DIR)
    /\ call.tool \in {"escrever_arquivo", "ler_arquivo"} =>
          /\ Escapes(call.arg) <=> reply \in SafeFileErrors
          /\ Escapes(call.arg) => opened = <<>>
          /\ opened # <<>> => opened = Designated(call.arg)
    /\ \A f \in written : f[1] \in {"C:", "D:"}

ConfinedStep ==
    /\ call'.tool = "definir_diretorio" =>
          /\ BadTarget(call'.arg) => (ACTIVE_DIR' = ACTIVE_DIR /\ reply' \in DefinirErrors)
          /\ ~BadTarget(call'.arg) =>
                /\ ACTIVE_DIR' = resolve(path_from(Cwd, clean_input(call'.arg)))
                /\ reply' \notin DefinirErrors
          /\ written' = written
    /\ call'.tool \in {"escrever_arquivo", "ler_arquivo"} =>
          /\ ACTIVE_DIR' = ACTIVE_DIR
          /\ reply' \in SafeFileErrors => (written' = written /\ opened' = <<>>)
    /\ \A f \in written' \ written : Inside(f, ACTIVE_DIR) /\ f = opened'
    /\ written \subseteq written'

\* C20: after any sequence of definir_diretorio and file-tool calls the
\* active directory lies under an allowed root; a definir_diretorio call
\* whose target does not exist, is not a directory or lies outside every
\* allowed root returns an error message and leaves the active directory
\* unchanged; every path accepted by _safe_file resolves inside the current
\* active directory, and a name that is empty or escapes it through "..",
\* an absolute path or a link is rejected with an error before any read or
\* write.
C20_Confinement == [](Confined) /\ [][ConfinedStep]_vars

\* from D:/data, a write to ../other/b.txt is refused, after a file was
\* written there
C20_Witness ==
    /\ ACTIVE_DIR = <<"D:", "data">>
    /\ call = [tool |-> "escrever_arquivo", arg |-> <<"..", "other", "b.txt">>]
    /\ reply = "Acesso nao autorizado (fora do diretorio ativo)"
    /\ opened = <<>>
    /\ written = {<<"D:", "data", "a.txt">>}

====
